---- MODULE Spec2Model ----
(***************************************************************************)
(* Naga-7: Core (ingest pipeline, correlation engine, LLM enricher,        *)
(* decision engine, agent registry, config sync, audit log) and the        *)
(* Striker action runtime with its rollback manager.                       *)
(*                                                                         *)
(* Every bus callback, HTTP handler and timer tick is one action.  Each    *)
(* component has its own next-state relation and specification; the        *)
(* variables of the other components stay at their initial values.         *)
(* Time is a clock `now` in seconds that the Tick actions advance; a       *)
(* cache key written with ex=T at time t is readable while now < t + T.    *)
(***************************************************************************)
EXTENDS Integers, Sequences, FiniteSets, TLC

VARIABLES
    now,             \* wall clock, seconds
    redisUp,         \* the cache answers (TRUE) or every call raises (FALSE)
    coreConnected,   \* nats_client.nc.is_connected in Core
    \* ---- ingest pipeline (EventPipelineService) ----
    dedupKeys,       \* n7:dedup:<hash> -> expiry time (0 = no key)
    buffer,          \* self._buffer
    eventsTable,     \* rows of the events table
    appended,        \* history: every event ever appended to self._buffer
    internalEvents,  \* history: messages published on n7.internal.events
    droppedDups,     \* history: messages dropped as duplicates
    ingestHandled,   \* number of messages handle_event has been called with
    flushLoopRunning,\* the task running _flush_loop is alive
    \* ---- correlation engine (ThreatCorrelatorService) ----
    corrCount,       \* n7:corr:<rule>:<source> -> counter value
    corrExp,         \* n7:corr:<rule>:<source> -> expiry time (0 = no key)
    cooldownExp,     \* n7:alert_cooldown:<rule>:<source> -> expiry time
    event_buffer,    \* self.event_buffer: source -> list of event records
    alertsTable,     \* rows of the alerts table
    llmAnalyze,      \* history: bundles published on n7.llm.analyze
    matchLog,        \* history: matching events per (rule, source), _create_alert calls
    corrHandled,     \* number of messages handle_internal_event was called with
    corrTicks,       \* number of clock steps
    \* ---- Striker (ActionExecutorService, RollbackManagerService) ----
    allowedActions,  \* settings.ALLOWED_ACTIONS
    strikerConnected,\* nats_client.nc.is_connected in the Striker
    ledger,          \* self._rollback_ledger
    executed,        \* history: calls of action_handler.execute
    evidence,        \* history: snapshots taken by the evidence collector
    actionsStatus,   \* history: messages published on n7.actions.status
    ownSubject,      \* history: messages published on n7.actions.<own id>
    rollbackCalls,   \* history: calls of _execute_rollback
    received,        \* history: messages handle_action was called with
    schedNext,       \* time of the next wake-up of the rollback scheduler
    strHandled,      \* number of messages handle_action has been called with
    strClock,        \* number of clock moves
    strConfigs,      \* number of config pushes applied
    \* ---- config sync (ConfigSyncService) ----
    agentConfigs,    \* agent_configs table: agent_id -> row
    cfgLog,          \* history: calls of provision_agent_config / upsert_config
    cfgCalls,        \* number of such calls
    \* ---- agent registry (api_gateway/routers/agents.py) ----
    agentsTable,     \* agents table: rows in insertion order, id = position
    hbLog,           \* history: requests to POST /agents/heartbeat and their answers
    agentCalls,      \* number of HTTP requests handled
    agentClock,      \* number of clock steps
    regLog,          \* history: requests to POST /agents/register and their answers
    certsIssued,     \* number of certificates issued by the CA
    \* ---- LLM enricher (LLMAnalyzerService) ----
    llmInFlight,     \* bundles published on n7.llm.analyze (each may be delivered again)
    llmCache,        \* n7:llm:narrative:<alert_id> -> expiry time and cached JSON
    generateCalls,   \* history: calls of _generate_narrative
    llmWrites,       \* history: UPDATEs issued by _persist_narrative
    alertLlmFields,  \* alerts table: the four LLM columns per alert row
    enrichedAlerts,  \* history: alerts published on n7.alerts
    llmDeliveries,   \* number of deliveries handled
    llmClock,        \* number of clock steps
    \* ---- audit logger (AuditLoggerService) ----
    auditRows,       \* rows of the audit_log table, in insertion order
    auditInFlight,   \* calls of log_entry suspended at an await
    auditCalls,      \* number of calls of log_entry
    auditUuids,      \* number of UUIDs drawn so far
    auditClock,      \* number of clock steps
    \* ---- decision engine, status reports (DecisionEngineService) ----
    actionsTable,    \* rows of the actions table
    statusLog,       \* history: reports handled, with the row before and after
    statusDeliveries,\* number of deliveries on n7.actions.status
    statusDispatches,\* number of actions dispatched with a row
    \* ---- decision engine, verdicts (DecisionEngineService.handle_alert) ----
    verdictLog,      \* history: alerts handled, with the verdict computed
    actionsBroadcast,\* history: messages published on n7.actions.broadcast
    alertsHandled,   \* number of alerts handle_alert was called with
    alertVerdicts,   \* verdict column of the alerts table, by alert_id
    \* ---- agent liveness (AgentManagerService, list_agents) ----
    listLog,         \* history: answers of GET /agents/
    managerCalls,    \* number of heartbeats handled on n7.heartbeat.>
    livenessClock,   \* number of clock steps
    \* ---- config push (PUT /agents/{id}/config, PUT /agents/{id}) ----
    agentRecords,    \* agents table columns written by PUT /agents/{id}: agent_id -> row
    configPublished, \* messages published on n7.config.<agent_id>
    pushLog,         \* history: requests PUT /agents/{id}/config and PUT /agents/{id}
    \* ---- Striker handler concurrency (ActionExecutorService subscriptions) ----
    maxConcurrent,   \* settings.MAX_CONCURRENT_ACTIONS
    subPending,      \* per subscription: messages delivered and not yet handled
    subRunning,      \* per subscription: the call of handle_action in progress, or None
    execLog,         \* history: calls of handle_action that finished
    \* ---- Sentinel event emitter (EventEmitterService) ----
    emConnected,     \* self.nc.is_connected and self.js of the Sentinel
    emBuffer,        \* self._buffer
    emPublished,     \* events published on n7.events.<type>.<subtype>, in bus order
    emDropped,       \* events logged as dropped
    emitCalls,       \* number of calls of emit()
    emLog,           \* history: events accepted into the buffer, events the flush loop published, buffer length at each drop, failed flush publishes, bursts
    \* ---- ingest pipeline shutdown (EventPipelineService.stop) ----
    pipelineRunning, \* self._running of EventPipelineService
    stopLog,         \* history: calls of stop(), with the buffer they found
    \* ---- ingest handler outcomes (EventPipelineService.handle_event) ----
    handlerLog,      \* history: calls of handle_event with an undecodable payload
    \* ---- operator dispatch over the bus (alerts.py, ActionExecutorService.start) ----
    busSubs,         \* subscriptions of the Strikers: records striker, subject, queue
    busActions,      \* action messages published by Core, in order
    handleActionCalls,\* deliveries to handle_action: records striker, action_id
    opActionRows,    \* rows of the actions table written by the dispatch endpoint
    \* ---- Striker config updates (AgentRuntimeService push handler and poll loop) ----
    coreConfigs,     \* config snapshots Core has committed for the Striker: version k carries coreConfigs[k]
    configPushes,    \* versions published on n7.config.<agent_id> and not delivered yet
    configVersion,   \* self._config_version of the Striker
    pollStage,       \* where the config poll loop is: sleeping, applying, responded
    pollResponse,    \* version of the snapshot in the answer to the GET of _apply_remote_config
    strCfgLog,       \* history: pushes and poll answers handled, with version and allowed_actions before and after
    \* ---- ingest buffer and concurrent flushes (EventPipelineService._flush_buffer) ----
    batchBuffer,     \* self._buffer, events numbered in the order of their append
    batchAppends,    \* number of events handle_event has appended
    batchBurstDone,  \* the burst of appends has been taken
    flushTasksPending,\* size-triggered flush tasks created and not yet run
    batches,         \* history: batches taken by _flush_buffer, by whom, committed or not
    batchTable,      \* rows inserted into the events table, in commit order
    \* ---- concurrent registrations (register_agent around its awaits) ----
    regRequests,     \* POST /agents/register requests: key, stage, row found by the SELECT, answer
    \* ---- concurrent upserts (upsert_config around its awaits) ----
    upsertCalls      \* calls of upsert_config: agent, config_dict, stage, row loaded by the SELECT, row returned

ingestVars == <<dedupKeys, buffer, eventsTable, appended, internalEvents, droppedDups,
                ingestHandled, flushLoopRunning>>
corrVars == <<corrCount, corrExp, cooldownExp, event_buffer, alertsTable, llmAnalyze,
              matchLog, corrHandled, corrTicks>>
strikerVars == <<allowedActions, strikerConnected, ledger, executed, evidence,
                 actionsStatus, ownSubject, rollbackCalls, received, schedNext,
                 strHandled, strClock, strConfigs>>
configVars == <<agentConfigs, cfgLog, cfgCalls>>
agentsVars == <<agentsTable, hbLog, agentCalls, agentClock, regLog, certsIssued>>
llmVars == <<llmInFlight, llmCache, generateCalls, llmWrites, alertLlmFields,
             enrichedAlerts, llmDeliveries, llmClock>>
auditVars == <<auditRows, auditInFlight, auditCalls, auditUuids, auditClock>>
decisionVars == <<actionsTable, statusLog, statusDeliveries, statusDispatches>>
verdictVars == <<verdictLog, actionsBroadcast, alertsHandled, alertVerdicts>>
livenessVars == <<listLog, managerCalls, livenessClock>>
pushVars == <<agentRecords, configPublished, pushLog>>
execVars == <<maxConcurrent, subPending, subRunning, execLog>>
emitterVars == <<emConnected, emBuffer, emPublished, emDropped, emitCalls, emLog>>
shutdownVars == <<pipelineRunning, stopLog>>
decodeVars == <<handlerLog>>
dispatchVars == <<busSubs, busActions, handleActionCalls, opActionRows>>
strcfgVars == <<coreConfigs, configPushes, configVersion, pollStage, pollResponse,
                strCfgLog>>
batchVars == <<batchBuffer, batchAppends, batchBurstDone, flushTasksPending, batches,
               batchTable>>
regraceVars == <<regRequests>>
cfgraceVars == <<upsertCalls>>

\* what the actions of one component leave alone outside it
IngestFrame == UNCHANGED <<coreConnected, corrVars, strikerVars, configVars, agentsVars, llmVars,
                 auditVars, decisionVars, verdictVars, livenessVars, pushVars,
                 execVars, emitterVars, shutdownVars, decodeVars, dispatchVars,
                 strcfgVars, batchVars, regraceVars, cfgraceVars>>
CorrFrame == UNCHANGED <<coreConnected, ingestVars, strikerVars, configVars, agentsVars, llmVars,
               auditVars, decisionVars, verdictVars, livenessVars, pushVars, execVars,
               emitterVars, shutdownVars, decodeVars, dispatchVars, strcfgVars,
               batchVars, regraceVars, cfgraceVars>>
StrikerFrame == UNCHANGED <<redisUp, coreConnected, ingestVars, corrVars, configVars, agentsVars,
                  llmVars, auditVars, decisionVars, verdictVars, livenessVars,
                  pushVars, execVars, emitterVars, shutdownVars, decodeVars,
                  dispatchVars, strcfgVars, batchVars, regraceVars, cfgraceVars>>
ConfigFrame == UNCHANGED <<ingestVars, corrVars, strikerVars, agentsVars, llmVars, auditVars,
                 decisionVars, verdictVars, livenessVars, pushVars, execVars,
                 emitterVars, shutdownVars, decodeVars, dispatchVars, strcfgVars,
                 batchVars, regraceVars, cfgraceVars>>
AgentsFrame == UNCHANGED <<ingestVars, corrVars, strikerVars, configVars, llmVars, auditVars,
                 decisionVars, verdictVars, livenessVars, pushVars, execVars,
                 emitterVars, shutdownVars, decodeVars, dispatchVars, strcfgVars,
                 batchVars, regraceVars, cfgraceVars>>
LlmFrame == UNCHANGED <<ingestVars, corrVars, strikerVars, configVars, agentsVars, auditVars,
              decisionVars, verdictVars, livenessVars, pushVars, execVars, emitterVars,
              shutdownVars, decodeVars, dispatchVars, strcfgVars, batchVars,
              regraceVars, cfgraceVars>>
AuditFrame == UNCHANGED <<ingestVars, corrVars, strikerVars, configVars, agentsVars, llmVars,
                decisionVars, verdictVars, livenessVars, pushVars, execVars,
                emitterVars, shutdownVars, decodeVars, dispatchVars, strcfgVars,
                batchVars, regraceVars, cfgraceVars>>
DecisionFrame == UNCHANGED <<ingestVars, corrVars, strikerVars, configVars, agentsVars, llmVars,
                   auditVars, verdictVars, livenessVars, pushVars, execVars,
                   emitterVars, shutdownVars, decodeVars, dispatchVars, strcfgVars,
                   batchVars, regraceVars, cfgraceVars>>
VerdictFrame == UNCHANGED <<ingestVars, corrVars, strikerVars, configVars, agentsVars, llmVars,
                  auditVars, decisionVars, livenessVars, pushVars, execVars,
                  emitterVars, shutdownVars, decodeVars, dispatchVars, strcfgVars,
                  batchVars, regraceVars, cfgraceVars>>
LivenessFrame == UNCHANGED <<ingestVars, corrVars, strikerVars, configVars, agentsVars, llmVars,
                   auditVars, decisionVars, verdictVars, pushVars, execVars,
                   emitterVars, shutdownVars, decodeVars, dispatchVars, strcfgVars,
                   batchVars, regraceVars, cfgraceVars>>
PushFrame == UNCHANGED <<ingestVars, corrVars, strikerVars, configVars, agentsVars, llmVars,
               auditVars, decisionVars, verdictVars, livenessVars, execVars,
               emitterVars, shutdownVars, decodeVars, dispatchVars, strcfgVars,
               batchVars, regraceVars, cfgraceVars>>
ExecFrame == UNCHANGED <<ingestVars, corrVars, strikerVars, configVars, agentsVars, llmVars,
               auditVars, decisionVars, verdictVars, livenessVars, pushVars,
               emitterVars, shutdownVars, decodeVars, dispatchVars, strcfgVars,
               batchVars, regraceVars, cfgraceVars>>
EmitterFrame == UNCHANGED <<ingestVars, corrVars, strikerVars, configVars, agentsVars, llmVars,
                  auditVars, decisionVars, verdictVars, livenessVars, pushVars,
                  execVars, shutdownVars, decodeVars, dispatchVars, strcfgVars,
                  batchVars, regraceVars, cfgraceVars>>
ShutdownFrame == UNCHANGED <<ingestVars, corrVars, strikerVars, configVars, agentsVars, llmVars,
                   auditVars, decisionVars, verdictVars, livenessVars, pushVars,
                   execVars, emitterVars, decodeVars, dispatchVars, strcfgVars,
                   batchVars, regraceVars, cfgraceVars>>
DecodeFrame == UNCHANGED <<ingestVars, corrVars, strikerVars, configVars, agentsVars, llmVars,
                 auditVars, decisionVars, verdictVars, livenessVars, pushVars,
                 execVars, emitterVars, shutdownVars, dispatchVars, strcfgVars,
                 batchVars, regraceVars, cfgraceVars>>
DispatchFrame == UNCHANGED <<ingestVars, corrVars, strikerVars, configVars, agentsVars, llmVars,
                   auditVars, decisionVars, verdictVars, livenessVars, pushVars,
                   execVars, emitterVars, shutdownVars, decodeVars, strcfgVars,
                   batchVars, regraceVars, cfgraceVars>>
StrcfgFrame == UNCHANGED <<ingestVars, corrVars, strikerVars, configVars, agentsVars, llmVars,
                 auditVars, decisionVars, verdictVars, livenessVars, pushVars,
                 execVars, emitterVars, shutdownVars, decodeVars, dispatchVars,
                 batchVars, regraceVars, cfgraceVars>>
BatchFrame == UNCHANGED <<ingestVars, corrVars, strikerVars, configVars, agentsVars, llmVars,
                auditVars, decisionVars, verdictVars, livenessVars, pushVars, execVars,
                emitterVars, shutdownVars, decodeVars, dispatchVars, strcfgVars,
                regraceVars, cfgraceVars>>
RegraceFrame == UNCHANGED <<ingestVars, corrVars, strikerVars, configVars, agentsVars, llmVars,
                  auditVars, decisionVars, verdictVars, livenessVars, pushVars,
                  execVars, emitterVars, shutdownVars, decodeVars, dispatchVars,
                  strcfgVars, batchVars, cfgraceVars>>
CfgraceFrame == UNCHANGED <<ingestVars, corrVars, strikerVars, configVars, agentsVars, llmVars,
                  auditVars, decisionVars, verdictVars, livenessVars, pushVars,
                  execVars, emitterVars, shutdownVars, decodeVars, dispatchVars,
                  strcfgVars, batchVars, regraceVars>>
AgentsLivenessFrame == UNCHANGED <<ingestVars, corrVars, strikerVars, configVars, llmVars,
                         auditVars, decisionVars, verdictVars, pushVars, execVars,
                         emitterVars, shutdownVars, decodeVars, dispatchVars,
                         strcfgVars, batchVars, regraceVars, cfgraceVars>>
ConfigPushFrame == UNCHANGED <<ingestVars, corrVars, strikerVars, agentsVars, llmVars, auditVars,
                     decisionVars, verdictVars, livenessVars, execVars, emitterVars,
                     shutdownVars, decodeVars, dispatchVars, strcfgVars, batchVars,
                     regraceVars, cfgraceVars>>
IngestShutdownFrame == UNCHANGED <<corrVars, strikerVars, configVars, agentsVars, llmVars,
                         auditVars, decisionVars, verdictVars, livenessVars, pushVars,
                         execVars, emitterVars, decodeVars, dispatchVars, strcfgVars,
                         batchVars, regraceVars, cfgraceVars>>
IngestDecodeFrame == UNCHANGED <<corrVars, strikerVars, configVars, agentsVars, llmVars,
                       auditVars, decisionVars, verdictVars, livenessVars, pushVars,
                       execVars, emitterVars, shutdownVars, dispatchVars, strcfgVars,
                       batchVars, regraceVars, cfgraceVars>>
StrikerStrcfgFrame == UNCHANGED <<ingestVars, corrVars, configVars, agentsVars, llmVars,
                        auditVars, decisionVars, verdictVars, livenessVars, pushVars,
                        execVars, emitterVars, shutdownVars, decodeVars, dispatchVars,
                        batchVars, regraceVars, cfgraceVars>>
AgentsRegraceFrame == UNCHANGED <<ingestVars, corrVars, strikerVars, configVars, llmVars,
                        auditVars, decisionVars, verdictVars, livenessVars, pushVars,
                        execVars, emitterVars, shutdownVars, decodeVars, dispatchVars,
                        strcfgVars, batchVars, cfgraceVars>>
ConfigCfgraceFrame == UNCHANGED <<ingestVars, corrVars, strikerVars, agentsVars, llmVars,
                        auditVars, decisionVars, verdictVars, livenessVars, pushVars,
                        execVars, emitterVars, shutdownVars, decodeVars, dispatchVars,
                        strcfgVars, batchVars, regraceVars>>

(***************************************************************************)
(* Clock and cache helpers                                                 *)
(***************************************************************************)
\* A key with expiry time e answers GET while the clock is before e.
Live(e) == e > now

Range(s) == {s[i] : i \in DOMAIN s}

\* Python None is the empty tuple, a value x is <<x>>
PyNone == <<>>
Some(x) == <<x>>

\* x or default
or_else(x, default) == IF x = PyNone THEN default ELSE x[1]

(***************************************************************************)
(* Ingest pipeline: n7_core/event_pipeline/service.py                      *)
(***************************************************************************)
dedup_window == 60

MaxIngest == 3          \* messages delivered to handle_event
MaxTimeIngest == 60     \* horizon of the ingest clock
TickIngestStep == 30

NilUUID == "00000000-0000-0000-0000-000000000000"
ValidUUIDs == {"s1"}

\* raw_data as it arrives on the wire: an ordered list of key/value pairs
RawFailA == <<<<"outcome", "failure">>, <<"source_ip", "ip1">>>>
RawFailB == <<<<"source_ip", "ip1">>, <<"outcome", "failure">>>>
RawOk    == <<<<"outcome", "success">>, <<"source_ip", "ip1">>>>

\* timestamp is the kind of text the message carries: "naive" (no offset),
\* "aware" (ending in Z or an offset) or "absent"
IngestMessages ==
    { [sentinel_id |-> "s1",  event_class |-> "authentication", raw_data |-> RawFailA,
       severity |-> "low", timestamp |-> "naive"],
      [sentinel_id |-> "s1",  event_class |-> "authentication", raw_data |-> RawFailB,
       severity |-> "high", timestamp |-> "absent"],
      [sentinel_id |-> "bad", event_class |-> "process",        raw_data |-> RawOk,
       severity |-> "medium", timestamp |-> "aware"] }

Garbage == "not-json"

KeyRank(k) == CASE k = "outcome" -> 1 [] k = "source_ip" -> 2 [] OTHER -> 3

RECURSIVE InsertByKey(_, _)
InsertByKey(p, s) ==
    IF s = <<>> THEN <<p>>
    ELSE IF KeyRank(p[1]) <= KeyRank(Head(s)[1]) THEN <<p>> \o s
    ELSE <<Head(s)>> \o InsertByKey(p, Tail(s))

\* json.dumps(raw_data, sort_keys=True)
RECURSIVE SortKeys(_)
SortKeys(raw) ==
    IF raw = <<>> THEN <<>> ELSE InsertByKey(Head(raw), SortKeys(Tail(raw)))

\* the key without sort_keys: the dict's own order
event_hash_unsorted(m) == <<m.sentinel_id, m.event_class, m.raw_data>>

\* sha256 of "<sentinel_id>:<event_class>:<sorted json>", kept as the triple
event_hash(m) == <<m.sentinel_id, m.event_class, SortKeys(m.raw_data)>>

DedupKeySpace == {event_hash(m) : m \in IngestMessages}

\* sentinel_id repair: a malformed id is stored as the nil UUID
repair_sentinel_id(s) == IF s \in ValidUUIDs THEN s ELSE NilUUID

\* _is_duplicate: the answer, and the cache it leaves behind
is_duplicate(m) ==
    IF ~redisUp THEN FALSE                       \* fail open
    ELSE Live(dedupKeys[event_hash(m)])

dedup_after(m) ==
    IF ~redisUp \/ Live(dedupKeys[event_hash(m)]) THEN dedupKeys
    ELSE [dedupKeys EXCEPT ![event_hash(m)] = now + dedup_window]

\* IOC promotion: severity = "critical"; raw_data["ioc_matched"] = True
promoted(m, matches) ==
    IF matches
    THEN [severity |-> "critical", raw_data |-> Append(m.raw_data, <<"ioc_matched", TRUE>>)]
    ELSE [severity |-> m.severity, raw_data |-> m.raw_data]

\* ts: utcnow() unless the message carries a timestamp; tz_aware tells whether
\* the parsed datetime has an offset
ts_tz_aware(m) == m.timestamp = "aware"

\* the EventModel row / ProtoEvent built by handle_event; msg, matches, at and
\* cacheOk record the message, the answer of the enrichment, the handling time
\* and the cache state of the call
db_event(m, matches) ==
    [ event_id    |-> ingestHandled + 1,
      sentinel_id |-> repair_sentinel_id(m.sentinel_id),
      event_class |-> m.event_class,
      severity    |-> promoted(m, matches).severity,
      raw_data    |-> promoted(m, matches).raw_data,
      tz_aware    |-> ts_tz_aware(m),
      matches     |-> matches,
      msg         |-> m,
      at          |-> now,
      cacheOk     |-> redisUp ]

\* the publish left out
forwarded_never(events, ev) == events

\* nats_client.nc.publish("n7.internal.events", ...) behind is_connected
forwarded(events, ev) == IF coreConnected THEN Append(events, ev) ELSE events

\* handle_event for a decodable message; matches = the enrichment found an IOC
HandleEvent(m, matches) ==
    /\ ingestHandled < MaxIngest
    /\ ingestHandled' = ingestHandled + 1
    /\ dedupKeys' = dedup_after(m)
    /\ IF is_duplicate(m)
       THEN /\ droppedDups' = Append(droppedDups, [msg |-> m, at |-> now])
            /\ UNCHANGED <<buffer, appended, internalEvents>>
       ELSE /\ buffer' = Append(buffer, db_event(m, matches))
            /\ appended' = Append(appended, db_event(m, matches))
            /\ internalEvents' = forwarded(internalEvents, db_event(m, matches))
            /\ UNCHANGED droppedDups
    /\ UNCHANGED <<now, redisUp, eventsTable, flushLoopRunning>>
    /\ IngestFrame

\* handle_event for bytes that json.loads rejects: logged and swallowed
HandleGarbage ==
    /\ ingestHandled < MaxIngest
    /\ ingestHandled' = ingestHandled + 1
    /\ UNCHANGED <<now, redisUp, dedupKeys, buffer, eventsTable, appended, internalEvents,
                   droppedDups, flushLoopRunning>>
    /\ IngestFrame

\* one pass of _flush_loop: _flush_buffer drains the buffer into one insert
FlushBuffer ==
    /\ flushLoopRunning
    /\ buffer # <<>>
    /\ eventsTable' = eventsTable \o buffer
    /\ buffer' = <<>>
    /\ UNCHANGED <<now, redisUp, dedupKeys, appended, internalEvents, droppedDups,
                   ingestHandled, flushLoopRunning>>
    /\ IngestFrame

\* one pass of _flush_loop in which session.commit() raises: the buffer was
\* cleared at line 79, and the exception leaves _flush_buffer and _flush_loop,
\* which has no handler, so the flush task ends
FlushBufferFails ==
    /\ flushLoopRunning
    /\ buffer # <<>>
    /\ buffer' = <<>>
    /\ flushLoopRunning' = FALSE
    /\ UNCHANGED <<now, redisUp, dedupKeys, eventsTable, appended, internalEvents,
                   droppedDups, ingestHandled>>
    /\ IngestFrame

TickIngest ==
    /\ now + TickIngestStep <= MaxTimeIngest
    /\ now' = now + TickIngestStep
    /\ UNCHANGED <<redisUp, ingestVars>>
    /\ IngestFrame

\* the cache becomes unreachable / reachable again
RedisToggle ==
    /\ redisUp' = ~redisUp
    /\ UNCHANGED <<now, ingestVars>>
    /\ IngestFrame


InitIngest ==
    /\ dedupKeys = [k \in DedupKeySpace |-> 0]
    /\ buffer = <<>>
    /\ eventsTable = <<>>
    /\ appended = <<>>
    /\ internalEvents = <<>>
    /\ droppedDups = <<>>
    /\ ingestHandled = 0
    /\ flushLoopRunning = TRUE


NextIngest ==
    \/ \E m \in IngestMessages, matches \in BOOLEAN : HandleEvent(m, matches)
    \/ HandleGarbage
    \/ FlushBuffer
    \/ TickIngest
    \/ RedisToggle

\* the pipeline with a database whose commits can fail
NextFlush ==
    \/ \E m \in IngestMessages, matches \in BOOLEAN : HandleEvent(m, matches)
    \/ FlushBuffer
    \/ FlushBufferFails
    \/ TickIngest

(***************************************************************************)
(* Ingest buffer under concurrent flushes: event_pipeline/service.py        *)
(***************************************************************************)
FLUSH_BATCH_SIZE == 500

MaxBatchAppends == 4   \* events appended one at a time
AppendBurst == 498     \* events appended in one step, no flush in between, once
MaxBatches == 3        \* batches taken by _flush_buffer

\* the buffer left as it is after the copy
drained_never(buf) == buf

\* self._buffer.clear()
drained(buf) == <<>>

\* batch = self._buffer[:]
batch_of(buf) == buf

\* handle_event, lines 183-185, for n events in a row: the buffer afterwards
\* and the number of appends that found len(self._buffer) >= FLUSH_BATCH_SIZE
appended_events(buf, first, n) == buf \o [k \in 1..n |-> first + k - 1]

tasks_created(buf, n) ==
    Cardinality({k \in 1..n : Len(buf) + k >= FLUSH_BATCH_SIZE})

\* handle_event appends one event and, at FLUSH_BATCH_SIZE or more, creates a flush task
AppendEvent ==
    /\ batchAppends - (IF batchBurstDone THEN AppendBurst ELSE 0) < MaxBatchAppends
    /\ batchAppends' = batchAppends + 1
    /\ batchBuffer' = appended_events(batchBuffer, batchAppends + 1, 1)
    /\ flushTasksPending' = flushTasksPending + tasks_created(batchBuffer, 1)
    /\ UNCHANGED <<batchBurstDone, batches, batchTable>>
    /\ UNCHANGED <<now, redisUp, coreConnected>>
    /\ BatchFrame

\* AppendBurst deliveries handled back to back, before any flush task or the
\* flush loop gets to run
AppendMany ==
    /\ ~batchBurstDone
    /\ batchBurstDone' = TRUE
    /\ batchAppends' = batchAppends + AppendBurst
    /\ batchBuffer' = appended_events(batchBuffer, batchAppends + 1, AppendBurst)
    /\ flushTasksPending' = flushTasksPending + tasks_created(batchBuffer, AppendBurst)
    /\ UNCHANGED <<batches, batchTable>>
    /\ UNCHANGED <<now, redisUp, coreConnected>>
    /\ BatchFrame

\* _flush_buffer up to the end of the lock: no await between the test, the
\* copy and the clear
take_batch(by) ==
    /\ batchBuffer # <<>>
    /\ Len(batches) < MaxBatches
    /\ batches' = Append(batches, [by |-> by, events |-> batch_of(batchBuffer),
                                   committed |-> FALSE])
    /\ batchBuffer' = drained(batchBuffer)

\* _flush_loop wakes up and calls _flush_buffer; it awaits the commit of its
\* batch before it sleeps again
LoopTake ==
    /\ \A i \in DOMAIN batches : batches[i].by = "loop" => batches[i].committed
    /\ take_batch("loop")
    /\ UNCHANGED <<batchAppends, batchBurstDone, flushTasksPending, batchTable>>
    /\ UNCHANGED <<now, redisUp, coreConnected>>
    /\ BatchFrame

\* a size-triggered task runs _flush_buffer: it returns on an empty buffer
TaskTake ==
    /\ flushTasksPending > 0
    /\ flushTasksPending' = flushTasksPending - 1
    /\ IF batchBuffer = <<>>
       THEN UNCHANGED <<batches, batchBuffer>>
       ELSE take_batch("task")
    /\ UNCHANGED <<batchAppends, batchBurstDone, batchTable>>
    /\ UNCHANGED <<now, redisUp, coreConnected>>
    /\ BatchFrame

\* session.add_all(batch); session.commit() of the i-th batch taken
CommitBatch(i) ==
    /\ i \in DOMAIN batches
    /\ ~batches[i].committed
    /\ batches' = [batches EXCEPT ![i].committed = TRUE]
    /\ batchTable' = batchTable \o batches[i].events
    /\ UNCHANGED <<batchBuffer, batchAppends, batchBurstDone, flushTasksPending>>
    /\ UNCHANGED <<now, redisUp, coreConnected>>
    /\ BatchFrame

InitBatch ==
    /\ batchBuffer = <<>>
    /\ batchAppends = 0
    /\ batchBurstDone = FALSE
    /\ flushTasksPending = 0
    /\ batches = <<>>
    /\ batchTable = <<>>

NextBatch ==
    \/ AppendEvent
    \/ AppendMany
    \/ LoopTake
    \/ TaskTake
    \/ \E i \in 1..MaxBatches : CommitBatch(i)

(***************************************************************************)
(* Ingest shutdown: EventPipelineService.stop                               *)
(***************************************************************************)
\* stop(): _running is cleared, the flush task is cancelled, and the buffer is
\* drained by one last _flush_buffer; the subscription on n7.events.> is left
\* in place (the bus is closed by main after stop_all)
StopPipeline ==
    /\ pipelineRunning
    /\ pipelineRunning' = FALSE
    /\ flushLoopRunning' = FALSE
    /\ eventsTable' = eventsTable \o buffer
    /\ buffer' = <<>>
    /\ stopLog' = Append(stopLog, [at |-> now, drained |-> buffer])
    /\ UNCHANGED <<now, redisUp, coreConnected, dedupKeys, appended, internalEvents,
                   droppedDups, ingestHandled>>
    /\ IngestShutdownFrame

InitShutdown ==
    /\ pipelineRunning = TRUE
    /\ stopLog = <<>>

\* the service is stopped while messages keep arriving
NextShutdown ==
    \/ \E m \in IngestMessages, matches \in BOOLEAN : HandleEvent(m, matches)
    \/ FlushBuffer
    \/ StopPipeline
    \/ TickIngest

(***************************************************************************)
(* Ingest decoding: EventPipelineService.handle_event, lines 113-115, 200   *)
(***************************************************************************)
\* payloads that are not a JSON object
UndecodablePayloads == {"invalid_utf8", "invalid_json", "json_list", "json_null", "json_text"}

\* the exceptions derived from Exception
ExceptionClasses == {"UnicodeDecodeError", "JSONDecodeError", "AttributeError"}

\* json.loads(msg.data.decode()) followed by event_dict.get: what it raises
decode_raises(payload) ==
    CASE payload = "invalid_utf8" -> "UnicodeDecodeError"    \* bytes.decode
      [] payload = "invalid_json" -> "JSONDecodeError"       \* json.loads
      [] OTHER -> "AttributeError"                           \* list / None / str have no get

\* a handler that expects only malformed JSON
caught_json_only(exc) == exc = "JSONDecodeError"

\* except Exception as e: logged
caught(exc) == exc \in ExceptionClasses

\* handle_event for a payload that is not a JSON object: the exception is
\* raised before the dedup check, the append and the publish
HandleUndecodable(payload) ==
    /\ ingestHandled < MaxIngest
    /\ ingestHandled' = ingestHandled + 1
    /\ handlerLog' = Append(handlerLog,
                            [payload |-> payload, call |-> ingestHandled + 1,
                             outcome |-> IF caught(decode_raises(payload))
                                         THEN "returned" ELSE "raised",
                             appended_before |-> Len(appended),
                             buffer_before |-> buffer, buffer_after |-> buffer,
                             forwarded_before |-> internalEvents,
                             forwarded_after |-> internalEvents])
    /\ UNCHANGED <<now, redisUp, coreConnected, dedupKeys, buffer, eventsTable, appended,
                   internalEvents, droppedDups, flushLoopRunning>>
    /\ IngestDecodeFrame

InitDecode ==
    /\ handlerLog = <<>>

NextDecode ==
    \/ \E m \in IngestMessages, matches \in BOOLEAN : HandleEvent(m, matches)
    \/ \E p \in UndecodablePayloads : HandleUndecodable(p)
    \/ FlushBuffer
    \/ TickIngest

(***************************************************************************)
(* Sentinel event emitter: n7_sentinels/event_emitter/service.py            *)
(***************************************************************************)
BUFFER_MAXLEN == 1000

MaxEmits == 5          \* calls of emit() taken one at a time
EmitBurst == 996       \* calls of emit() taken in one step while disconnected, once
MaxFlushes == 3        \* events the flush loop publishes
MaxFlushFailures == 1  \* publishes of the flush loop that raise

\* a deque(maxlen) appended to without the length test: the oldest entry goes
emit_buffered_evicting(buf, event) ==
    IF Len(buf) < BUFFER_MAXLEN THEN Append(buf, event) ELSE Append(Tail(buf), event)

\* emit(): the buffer after an event could not be published
emit_buffered(buf, event) ==
    IF Len(buf) < BUFFER_MAXLEN THEN Append(buf, event) ELSE buf

\* emit() for one event that is not published: buffered, or dropped when the
\* buffer is full; st = [buf, dropped, log], logged tells whether the drop is logged
emit_unpublished(st, event, logged) ==
    LET full == Len(st.buf) >= BUFFER_MAXLEN
    IN [ buf |-> emit_buffered(st.buf, event),
         dropped |-> IF full /\ logged THEN Append(st.dropped, event) ELSE st.dropped,
         log |-> IF full
                 THEN [st.log EXCEPT !.drop_lens = Append(@, Len(st.buf))]
                 ELSE [st.log EXCEPT !.accepted = Append(@, event)] ]

\* n calls of emit() in a row with the connection down, for events first, first+1, ...
\* (the test on Len only makes TLC evaluate st1 before the next call)
RECURSIVE emit_many(_, _, _)
emit_many(st, first, n) ==
    IF n = 0 THEN st
    ELSE IF n = 1 THEN emit_unpublished(st, first, TRUE)
    ELSE LET h == n \div 2
             st1 == emit_many(st, first, h)
         IN IF Len(st1.buf) >= 0 THEN emit_many(st1, first + h, n - h) ELSE st1

\* emit(): the k-th call carries event k; publish_ok is the outcome of
\* js.publish when the connection is up
Emit(publish_ok) ==
    /\ emitCalls - emLog.bursts * EmitBurst < MaxEmits
    /\ emitCalls' = emitCalls + 1
    /\ LET event == emitCalls + 1
           st == emit_unpublished([buf |-> emBuffer, dropped |-> emDropped, log |-> emLog],
                                  event, ~emConnected)
       IN IF emConnected /\ publish_ok
          THEN /\ emPublished' = Append(emPublished, event)
               /\ UNCHANGED <<emBuffer, emDropped, emLog>>
          ELSE /\ emBuffer' = st.buf
               /\ emDropped' = st.dropped
               /\ emLog' = st.log
               /\ UNCHANGED emPublished
    /\ UNCHANGED <<now, redisUp, coreConnected, emConnected>>
    /\ EmitterFrame

\* emit() called EmitBurst times while the connection is down, nothing else
\* happening in between
EmitMany ==
    /\ ~emConnected
    /\ emLog.bursts = 0
    /\ emitCalls' = emitCalls + EmitBurst
    /\ LET st == emit_many([buf |-> emBuffer, dropped |-> emDropped, log |-> emLog],
                           emitCalls + 1, EmitBurst)
       IN /\ emBuffer' = st.buf
          /\ emDropped' = st.dropped
          /\ emLog' = [st.log EXCEPT !.bursts = @ + 1]
    /\ UNCHANGED <<now, redisUp, coreConnected, emConnected, emPublished>>
    /\ EmitterFrame

\* _flush_loop: one turn of the inner while loop: peek, publish, popleft; a
\* publish that raises leaves the event at the head of the buffer
FlushOne(publish_ok) ==
    /\ emConnected
    /\ emBuffer # <<>>
    /\ IF publish_ok
       THEN /\ Len(emLog.flushed) < MaxFlushes
            /\ emPublished' = Append(emPublished, Head(emBuffer))
            /\ emBuffer' = Tail(emBuffer)
            /\ emLog' = [emLog EXCEPT !.flushed = Append(@, Head(emBuffer))]
       ELSE /\ emLog.failed < MaxFlushFailures
            /\ emLog' = [emLog EXCEPT !.failed = @ + 1]
            /\ UNCHANGED <<emPublished, emBuffer>>
    /\ UNCHANGED <<now, redisUp, coreConnected, emConnected, emDropped, emitCalls>>
    /\ EmitterFrame

\* the Sentinel's bus connection drops or comes back
EmitterBusToggle ==
    /\ emConnected' = ~emConnected
    /\ UNCHANGED <<now, redisUp, coreConnected, emBuffer, emPublished, emDropped, emitCalls,
                   emLog>>
    /\ EmitterFrame

InitEmitter ==
    /\ emConnected = TRUE
    /\ emBuffer = <<>>
    /\ emPublished = <<>>
    /\ emDropped = <<>>
    /\ emitCalls = 0
    /\ emLog = [accepted |-> <<>>, flushed |-> <<>>, drop_lens |-> <<>>, failed |-> 0,
                bursts |-> 0]

NextEmitter ==
    \/ \E ok \in BOOLEAN : Emit(ok)
    \/ EmitMany
    \/ \E ok \in BOOLEAN : FlushOne(ok)
    \/ EmitterBusToggle

(***************************************************************************)
(* Correlation engine: n7_core/threat_correlator                            *)
(***************************************************************************)
ALERT_COOLDOWN == 300
BUFFER_KEEP_SECONDS == 3600

MaxCorr == 6            \* messages delivered to handle_internal_event
MaxCorrOther == 2       \* of these, messages that are not failed logins of ip1
MaxCorrTicks == 1       \* clock steps
CorrTickSteps == {30, 300}

RuleOrder == <<"brute_force", "lateral_movement", "ioc_match", "high_cpu_usage",
               "honeytoken_access">>
RuleIds == Range(RuleOrder)

\* CORRELATION_RULES; a field test is <<kind, field, value>>
NoStage == <<>>
CORRELATION_RULES(r) ==
    CASE r = "brute_force" ->
            [ name |-> "Brute Force Attack Detection", multi_stage |-> NoStage,
              event_class |-> "authentication",
              fields |-> {<<"eq", "outcome", "failure">>},
              threshold |-> 5, time_window |-> 60, severity |-> "high" ]
      [] r = "lateral_movement" ->
            [ name |-> "Lateral Movement Detection",
              multi_stage |->
                << [ event_class |-> "authentication",
                     fields |-> {<<"eq", "outcome", "success">>},
                     min_occurrences |-> 1, within_seconds |-> 0 ],
                   [ event_class |-> "process",
                     fields |-> {<<"contains", "process_name",
                                   {"psexec", "wmic", "powershell"}>>},
                     min_occurrences |-> 1, within_seconds |-> 300 ] >>,
              event_class |-> "", fields |-> {},
              threshold |-> 1, time_window |-> 60, severity |-> "critical" ]
      [] r = "ioc_match" ->
            [ name |-> "Threat Intel IOC Match", multi_stage |-> NoStage,
              event_class |-> "",
              fields |-> {<<"eq", "ioc_matched", TRUE>>},
              threshold |-> 1, time_window |-> 300, severity |-> "critical" ]
      [] r = "high_cpu_usage" ->
            [ name |-> "Sustained High CPU Usage", multi_stage |-> NoStage,
              event_class |-> "endpoint",
              fields |-> {<<"regex", "description", "high cpu usage">>},
              threshold |-> 1, time_window |-> 120, severity |-> "high" ]
      [] r = "honeytoken_access" ->
            [ name |-> "Honeytoken File Access", multi_stage |-> NoStage,
              event_class |-> "honeytoken_access",
              fields |-> {},
              threshold |-> 1, time_window |-> 3600, severity |-> "critical" ]

\* the lower-cased fragments a text value contains (re.search / `in`)
Fragments(v) ==
    CASE v = "High CPU Usage: 97%" -> {"high cpu usage"}
      [] v = "powershell.exe"      -> {"powershell"}
      [] OTHER                     -> {}

\* events as they arrive on n7.internal.events
EvFail == [event_class |-> "authentication",
           raw_data |-> [outcome |-> "failure", source_ip |-> "ip1"]]
EvSucc == [event_class |-> "authentication",
           raw_data |-> [outcome |-> "success", source_ip |-> "ip1"]]
EvPs   == [event_class |-> "process",
           raw_data |-> [process_name |-> "powershell.exe", source_ip |-> "ip1"]]
EvCpu  == [event_class |-> "endpoint",
           raw_data |-> [description |-> "High CPU Usage: 97%"]]
CorrOtherEvents == {EvSucc, EvPs, EvCpu}
CorrSources == {"ip1", "unknown"}
CorrKeys == RuleIds \X CorrSources

\* raw_data.get("source_ip", "unknown")
source_of(raw) == IF "source_ip" \in DOMAIN raw THEN raw["source_ip"] ELSE "unknown"

\* one field test of _matches_pattern / _matches_stage
field_ok(t, raw) ==
    CASE t[1] = "eq"       -> t[2] \in DOMAIN raw /\ raw[t[2]] = t[3]
      [] t[1] = "regex"    -> t[2] \in DOMAIN raw /\ t[3] \in Fragments(raw[t[2]])
      [] t[1] = "contains" -> t[2] \in DOMAIN raw /\ t[3] \cap Fragments(raw[t[2]]) # {}

\* _matches_pattern and _matches_stage
matches_pattern(p, event_class, raw) ==
    /\ (p.event_class # "" => p.event_class = event_class)
    /\ \A t \in p.fields : field_ok(t, raw)

\* _calculate_threat_score
calculate_threat_score(severity, is_multi_stage, rule_id) ==
    IF rule_id = "honeytoken_access" THEN 100
    ELSE LET base == CASE severity = "critical" -> 90
                       [] severity = "high"     -> 75
                       [] severity = "medium"   -> 50
                       [] severity = "low"      -> 25
                       [] severity = "info"     -> 10
                       [] OTHER                 -> 50
         IN IF is_multi_stage THEN (IF base + 10 > 100 THEN 100 ELSE base + 10) ELSE base

\* The handler threads this record through the rules:
\*   cnt, exp, cd: the cache; buf: event_buffer; alerts, pubs: DB and bus;
\*   log, calls: histories read only by the properties;
\*   ok: FALSE once a call has raised (the rest of the handler is skipped)

\* the cooldown key never written
cooldown_set_skipped(cd, k) == cd

\* redis_client.set(cooldown_key, "1", ex=self.ALERT_COOLDOWN)
cooldown_set(cd, k) == [cd EXCEPT ![k] = now + ALERT_COOLDOWN]

\* _create_alert; calls is the history of its invocations
create_alert(st0, rule_id, source, event_ids, count, is_multi_stage) ==
    LET st == [st0 EXCEPT !.calls = Append(@, [rule_id |-> rule_id, source |-> source,
                                               at |-> now])]
    IN
    IF ~redisUp THEN [st EXCEPT !.ok = FALSE]       \* redis_client.get raises
    ELSE
    LET rule == CORRELATION_RULES(rule_id)
        k == <<rule_id, source>>
        in_cooldown == Live(st.cd[k])
        score == calculate_threat_score(rule.severity, is_multi_stage, rule_id)
        row == [ alert_id |-> Len(st.alerts) + 1,
                 rule_id |-> rule_id,
                 rule |-> rule.name,
                 source |-> source,
                 count |-> count,
                 is_multi_stage |-> is_multi_stage,
                 severity |-> rule.severity,
                 threat_score |-> score,
                 status |-> "new",
                 verdict |-> "pending",
                 event_ids |-> event_ids,
                 affected_assets |-> <<source>>,
                 at |-> now ]
        st1 == [st EXCEPT !.alerts = Append(@, row)]
    IN IF in_cooldown THEN st1
       ELSE [st1 EXCEPT !.cd = cooldown_set(@, k),
                        !.pubs = IF coreConnected
                                 THEN Append(@, [alert_id |-> row.alert_id,
                                                 rule_id |-> rule_id,
                                                 source |-> source,
                                                 severity |-> rule.severity,
                                                 threat_score |-> score,
                                                 at |-> now])
                                 ELSE @]

\* the counter left in place after the alert
counter_delete_kept(st, k) == st

\* redis_client.delete(key)
counter_delete(st, k) == [st EXCEPT !.cnt[k] = 0, !.exp[k] = 0]

\* _check_simple_pattern; log is the history of the matching events per key
check_simple_pattern(st, rule_id, ev) ==
    LET rule == CORRELATION_RULES(rule_id)
        source == source_of(ev.raw_data)
        k == <<rule_id, source>>
    IN IF ~matches_pattern(rule, ev.event_class, ev.raw_data) THEN st
       ELSE IF ~redisUp THEN [st EXCEPT !.ok = FALSE]    \* redis_client.incr raises
       ELSE
       LET count == (IF Live(st.exp[k]) THEN st.cnt[k] ELSE 0) + 1
           st1 == [st EXCEPT !.cnt[k] = count,
                             !.exp[k] = IF count = 1 THEN now + rule.time_window ELSE @,
                             !.log[k] = Append(@, [ev |-> ev.event_id, at |-> now,
                                                   count |-> count])]
       IN IF count >= rule.threshold
          THEN LET st2 == create_alert(st1, rule_id, source, <<ev.event_id>>, count, FALSE)
               IN IF st2.ok THEN counter_delete(st2, k) ELSE st2
          ELSE st1

\* the events of a source's buffer that satisfy one stage
stage_matches(stage, buffered) ==
    LET hit(e) == /\ matches_pattern(stage, e.event_class, e.raw_data)
                  /\ (stage.within_seconds # 0 => e.timestamp > now - stage.within_seconds)
    IN SelectSeq(buffered, hit)

RECURSIVE stage_event_ids(_, _)
stage_event_ids(stages, buffered) ==
    IF stages = <<>> THEN <<>>
    ELSE LET m == stage_matches(Head(stages), buffered)
             n == Head(stages).min_occurrences
         IN [i \in 1..n |-> m[i].event_id] \o stage_event_ids(Tail(stages), buffered)

\* the source's buffer left as it is after the alert
buffer_cleared_never(buf, source) == buf

\* self.event_buffer[source_identifier] = []
buffer_cleared(buf, source) == [buf EXCEPT ![source] = <<>>]

\* _check_multi_stage_pattern
check_multi_stage_pattern(st, rule_id, source) ==
    LET stages == CORRELATION_RULES(rule_id).multi_stage
        buffered == st.buf[source]
        all_matched == \A i \in DOMAIN stages :
                          Len(stage_matches(stages[i], buffered)) >= stages[i].min_occurrences
    IN IF ~all_matched THEN st
       ELSE LET ids == stage_event_ids(stages, buffered)
                st1 == create_alert(st, rule_id, source, ids, Len(ids), TRUE)
            IN IF st1.ok THEN [st1 EXCEPT !.buf = buffer_cleared(@, source)] ELSE st1

\* the loop over self.rules in handle_internal_event
RECURSIVE apply_rules(_, _, _)
apply_rules(i, st, ev) ==
    IF i > Len(RuleOrder) \/ ~st.ok THEN st
    ELSE LET r == RuleOrder[i]
             st1 == IF CORRELATION_RULES(r).multi_stage # NoStage
                    THEN check_multi_stage_pattern(st, r, source_of(ev.raw_data))
                    ELSE check_simple_pattern(st, r, ev)
         IN apply_rules(i + 1, st1, ev)

\* e["timestamp"] > cutoff_time raises TypeError when the buffered timestamp
\* has an offset: cutoff_time comes from utcnow() and has none
trim_raises(buf, source, ev) == \E e \in Range(Append(buf[source], ev)) : e.tz_aware

\* _buffer_event: append, then keep the last hour
buffer_event(buf, source, ev) ==
    LET keep(e) == e.timestamp > now - BUFFER_KEEP_SECONDS
    IN IF trim_raises(buf, source, ev)
       THEN [buf EXCEPT ![source] = Append(@, ev)]
       ELSE [buf EXCEPT ![source] = SelectSeq(Append(@, ev), keep)]

\* whether the timestamp of a message on n7.internal.events has an offset
tz_aware_of(e) == "tz_aware" \in DOMAIN e /\ e.tz_aware

\* handle_internal_event
HandleInternalEvent(e) ==
    /\ corrHandled < MaxCorr
    /\ e \in CorrOtherEvents =>
          Cardinality({i \in 1..corrHandled : matchLog.other[i]}) < MaxCorrOther
    /\ LET ev == [event_id |-> corrHandled + 1, timestamp |-> now,
                  tz_aware |-> tz_aware_of(e),
                  event_class |-> e.event_class, raw_data |-> e.raw_data]
           st0 == [ cnt |-> corrCount, exp |-> corrExp, cd |-> cooldownExp,
                    buf |-> buffer_event(event_buffer, source_of(e.raw_data), ev),
                    alerts |-> alertsTable, pubs |-> llmAnalyze,
                    log |-> matchLog.hits, calls |-> matchLog.calls,
                    ok |-> ~trim_raises(event_buffer, source_of(e.raw_data), ev) ]
           st == apply_rules(1, st0, ev)
       IN /\ corrCount' = st.cnt
          /\ corrExp' = st.exp
          /\ cooldownExp' = st.cd
          /\ event_buffer' = st.buf
          /\ alertsTable' = st.alerts
          /\ llmAnalyze' = st.pubs
          /\ matchLog' = [hits |-> st.log, calls |-> st.calls,
                          other |-> Append(matchLog.other, e \in CorrOtherEvents),
                          handled |-> Append(matchLog.handled,
                                         [source |-> source_of(e.raw_data), at |-> now,
                                          tz_aware |-> tz_aware_of(e), evaluated |-> st.ok,
                                          buffered |-> st0.buf[source_of(e.raw_data)],
                                          left |-> st.buf[source_of(e.raw_data)],
                                          alerts_before |-> Len(alertsTable)])]
    /\ corrHandled' = corrHandled + 1
    /\ UNCHANGED <<now, redisUp, corrTicks>>
    /\ CorrFrame

TickCorr(d) ==
    /\ corrTicks < MaxCorrTicks
    /\ corrTicks' = corrTicks + 1
    /\ now' = now + d
    /\ UNCHANGED <<redisUp, corrCount, corrExp, cooldownExp, event_buffer, alertsTable,
                   llmAnalyze, matchLog, corrHandled>>
    /\ CorrFrame

InitCorr ==
    /\ corrCount = [k \in CorrKeys |-> 0]
    /\ corrExp = [k \in CorrKeys |-> 0]
    /\ cooldownExp = [k \in CorrKeys |-> 0]
    /\ event_buffer = [s \in CorrSources |-> <<>>]
    /\ alertsTable = <<>>
    /\ llmAnalyze = <<>>
    /\ matchLog = [hits |-> [k \in CorrKeys |-> <<>>], calls |-> <<>>, other |-> <<>>,
                   handled |-> <<>>]
    /\ corrHandled = 0
    /\ corrTicks = 0

NextCorr ==
    \/ \E e \in {EvFail} \cup CorrOtherEvents : HandleInternalEvent(e)
    \/ \E d \in CorrTickSteps : TickCorr(d)

\* json.loads(proto_event.raw_data): the wire list of pairs read as a dict
raw_dict(raw) == [k \in {raw[i][1] : i \in DOMAIN raw} |->
                    raw[CHOOSE i \in DOMAIN raw : raw[i][1] = k][2]]

\* the ProtoEvent of a forwarded event as handle_internal_event reads it
proto_event(ev) == [event_class |-> ev.event_class, raw_data |-> raw_dict(ev.raw_data),
                    tz_aware |-> ev.tz_aware]

MaxIocDeliveries == 2   \* deliveries of forwarded events

\* delivery of a forwarded event on n7.internal.events
DeliverInternalEvent(i) ==
    /\ i \in DOMAIN internalEvents
    /\ corrHandled < MaxIocDeliveries
    /\ HandleInternalEvent(proto_event(internalEvents[i]))

\* ingest and correlation together
NextIoc ==
    \/ \E m \in IngestMessages, matches \in BOOLEAN : HandleEvent(m, matches)
    \/ \E i \in 1..MaxIngest : DeliverInternalEvent(i)
    \/ TickIngest

(***************************************************************************)
(* Striker: n7_strikers/action_executor and n7_strikers/rollback_manager    *)
(***************************************************************************)
SCHEDULER_SLEEP == 30
AUTO_UNBLOCK_SECONDS == 3600
DEFAULT_BLOCK_DURATION == 3600

MaxStrikerActions == 2  \* messages delivered to handle_action
MaxStrikerClock == 3    \* clock moves of the Striker
MaxConfigPush == 1      \* config pushes applied
SubTick == 10           \* clock step between two scheduler wake-ups
SleepBursts == {1, 120} \* consecutive scheduler wake-ups taken in one step

\* the duration a network_block is dispatched with
BlockDuration == 1

\* action commands as Core (or anyone on the bus) sends them
StrikerMessages ==
    { [action_id |-> "a1", action_type |-> "network_block",
       params |-> << <<"duration", BlockDuration>> >>],
      [action_id |-> "a2", action_type |-> "kill_process", params |-> <<>>],
      [action_id |-> "a2", action_type |-> "isolate_host", params |-> <<>>],
      [action_id |-> "a3", action_type |-> "zzz", params |-> <<>>] }
ActionIds == {m.action_id : m \in StrikerMessages}
ExecuteOutcomes == {"succeeded", "failed", "raises"}

\* self.actions
RegisteredHandlers ==
    {"kill_process", "network_block", "network_unblock", "isolate_host", "unisolate_host"}

\* _ROLLBACK_MAP: action_type -> (rollback_action_type, auto_rollback_seconds); 0 = None
ROLLBACK_MAP(t) ==
    CASE t = "isolate_host"  -> [rollback_action_type |-> "unisolate_host", auto |-> 0]
      [] t = "network_block" -> [rollback_action_type |-> "network_unblock",
                                 auto |-> AUTO_UNBLOCK_SECONDS]

RollbackTypes == {"isolate_host", "network_block"}

\* settings.ALLOWED_ACTIONS: None, or a list
AllowNone == [is_none |-> TRUE, items |-> {}]
AllowOnly(s) == [is_none |-> FALSE, items |-> s]
AllowedChoices == {AllowNone, AllowOnly({"kill_process"})}

\* the fields of n7_strikers.config.Settings
StrikerSettingsFields ==
    {"ENVIRONMENT", "LOG_LEVEL", "NATS_URL", "AGENT_TYPE", "AGENT_SUBTYPE", "ZONE",
     "CORE_API_URL", "API_KEY_FILE", "CAPABILITIES"}

NoEntry == [present |-> FALSE, action_type |-> "", rollback_action_type |-> "",
            rollback_params |-> <<>>, registered_at |-> 0, auto_rollback_at |-> 0, rolled_back |-> FALSE, call |-> 0]

\* settings.ACTION_DEFAULTS.get(action_type, {})
ACTION_DEFAULTS(action_type) ==
    IF action_type = "network_block" THEN << <<"duration", DEFAULT_BLOCK_DURATION>> >> ELSE <<>>

\* {**defaults, **params}: the command's parameters take precedence
merged_params(defaults, params) ==
    SelectSeq(defaults, LAMBDA d : \A i \in DOMAIN params : params[i][1] # d[1]) \o params

\* register_rollback: the entry written to the ledger (auto_rollback_at 0 = None);
\* call numbers the invocation of handle_action that did it
rollback_entry(action_id, action_type, params) ==
    [ present |-> TRUE,
      action_type |-> action_type,
      rollback_action_type |-> ROLLBACK_MAP(action_type).rollback_action_type,
      rollback_params |-> Append(merged_params(ACTION_DEFAULTS(action_type), params),
                                 <<"original_action_id", action_id>>),
      registered_at |-> now,
      auto_rollback_at |-> IF ROLLBACK_MAP(action_type).auto # 0
                           THEN now + ROLLBACK_MAP(action_type).auto ELSE 0,
      rolled_back |-> FALSE,
      call |-> strHandled + 1 ]

\* an allowlist that rejects nothing
rejected_by_nothing(action_type) == FALSE

\* the allowlist test of handle_action
rejected_by_allowlist(action_type) ==
    ~allowedActions.is_none /\ action_type \notin allowedActions.items

\* combined_evidence = {"pre": pre_evidence, "post": post_evidence}, sent with
\* completed and failed; the rejected and error payloads have no evidence key
combined_evidence(status) ==
    IF status \in {"completed", "failed"} THEN <<"pre", "post">> ELSE <<>>

status_msg(action_id, action_type, status) ==
    [action_id |-> action_id, action_type |-> action_type, status |-> status,
     evidence |-> combined_evidence(status),
     call |-> strHandled + 1, at |-> now]

\* nats_client.nc.publish("n7.actions.status", ...) behind `if is_connected`
publish_status(action_id, action_type, status) ==
    IF strikerConnected
    THEN Append(actionsStatus, status_msg(action_id, action_type, status))
    ELSE actionsStatus

\* collect_pre_action / collect_post_action
snapshot(action_id, phase) == [action_id |-> action_id, phase |-> phase, call |-> strHandled + 1]

\* action_handler.execute(params)
execution(action_id, action_type) ==
    [action_id |-> action_id, action_type |-> action_type, call |-> strHandled + 1, at |-> now]

\* rollback registered only for a handler that reported success
run_steps_success_only(action_type, outcome) ==
    IF outcome = "raises" THEN <<"pre", "execute">>
    ELSE <<"pre", "execute", "post">>
         \o (IF action_type \in RollbackTypes /\ outcome = "succeeded"
             THEN <<"rollback">> ELSE <<>>)

\* the steps of handle_action between the allowlist and the status report, in
\* the order of the code; an exception of execute leaves for the except branch
run_steps(action_type, outcome) ==
    IF outcome = "raises" THEN <<"pre", "execute">>
    ELSE <<"pre", "execute", "post">>
         \o (IF action_type \in RollbackTypes THEN <<"rollback">> ELSE <<>>)

\* the steps one invocation of handle_action goes through
steps_taken(action_type, outcome) ==
    IF action_type \notin RegisteredHandlers THEN <<>>
    ELSE (IF rejected_by_allowlist(action_type) THEN <<>>
          ELSE run_steps(action_type, outcome))
         \o (IF strikerConnected THEN <<"status">> ELSE <<>>)

\* handle_action
HandleAction(action_id, action_type, params, outcome) ==
    /\ strHandled < MaxStrikerActions
    /\ strHandled' = strHandled + 1
    /\ received' = Append(received, [action_id |-> action_id, action_type |-> action_type,
                                     allowed |-> allowedActions,
                                     connected |-> strikerConnected,
                                     outcome |-> IF action_type \in RegisteredHandlers
                                                    /\ ~rejected_by_allowlist(action_type)
                                                 THEN outcome ELSE "",
                                     steps |-> steps_taken(action_type, outcome),
                                     at |-> now])
    /\ IF action_type \notin RegisteredHandlers
       THEN \* Unknown action type: logged, nothing reported
            UNCHANGED <<executed, evidence, ledger, actionsStatus>>
       ELSE IF rejected_by_allowlist(action_type)
       THEN /\ actionsStatus' = publish_status(action_id, action_type, "rejected")
            /\ UNCHANGED <<executed, evidence, ledger>>
       ELSE IF outcome = "raises"
       THEN \* execute raises after the pre-action snapshot: the except branch
            /\ evidence' = Append(evidence, snapshot(action_id, "pre"))
            /\ executed' = Append(executed, execution(action_id, action_type))
            /\ actionsStatus' = publish_status(action_id, "", "error")
            /\ UNCHANGED ledger
       ELSE /\ evidence' = evidence \o << snapshot(action_id, "pre"),
                                          snapshot(action_id, "post") >>
            /\ executed' = Append(executed, execution(action_id, action_type))
            /\ ledger' = IF \E k \in DOMAIN run_steps(action_type, outcome) :
                                  run_steps(action_type, outcome)[k] = "rollback"
                         THEN [ledger EXCEPT ![action_id] = rollback_entry(action_id, action_type, params)]
                         ELSE ledger
            /\ actionsStatus' = publish_status(action_id, action_type,
                                    IF outcome = "succeeded" THEN "completed" ELSE "failed")
    /\ UNCHANGED <<now, allowedActions, strikerConnected, ownSubject, rollbackCalls,
                   schedNext, strClock, strConfigs>>
    /\ StrikerFrame

\* settings.<name> on the Settings object of n7_strikers/config.py
settings_has(name) == name \in StrikerSettingsFields

\* _execute_rollback at time t: st = [ledger, own, calls]; for_call names the
\* registration the message rolls back
execute_rollback(st, action_id, t) ==
    LET entry == st.ledger[action_id]
        st1 == [st EXCEPT !.calls = Append(@, [action_id |-> action_id, at |-> t])]
    IN IF ~strikerConnected THEN st1                \* "NATS not connected"
       ELSE IF ~settings_has("AGENT_ID") THEN st1   \* AttributeError, caught and logged
       ELSE [st1 EXCEPT !.own = Append(@, [action_id |-> <<"rollback", action_id>>,
                                           action_type |-> entry.rollback_action_type,
                                           original_action_id |-> action_id,
                                           for_call |-> entry.call,
                                           at |-> t]),
                        !.ledger[action_id].rolled_back = TRUE]

\* one pass of the for loop of _rollback_scheduler_loop at time t
\* (the test on Len only makes TLC evaluate st1 before the next call)
RECURSIVE scheduler_pass(_, _, _)
scheduler_pass(st, ids, t) ==
    IF ids = {} THEN st
    ELSE LET id == CHOOSE x \in ids : TRUE
             e == st.ledger[id]
             due == /\ e.present
                    /\ ~e.rolled_back
                    /\ e.auto_rollback_at # 0
                    /\ t >= e.auto_rollback_at
             st1 == IF due THEN execute_rollback(st, id, t) ELSE st
         IN IF Len(st1.calls) >= 0 THEN scheduler_pass(st1, ids \ {id}, t) ELSE st1

\* n wake-ups in a row, the first at time t
RECURSIVE scheduler_wakeups(_, _, _)
scheduler_wakeups(st, t, n) ==
    IF n = 0 THEN st
    ELSE IF n = 1 THEN scheduler_pass(st, ActionIds, t)
    ELSE LET h == n \div 2
             st1 == scheduler_wakeups(st, t, h)
         IN IF Len(st1.calls) >= 0
            THEN scheduler_wakeups(st1, t + SCHEDULER_SLEEP * h, n - h)
            ELSE st1

\* the scheduler sleeps and checks n times with nothing else happening between
SchedulerSleep(n) ==
    /\ strClock < MaxStrikerClock
    /\ strClock' = strClock + 1
    /\ LET st == scheduler_wakeups([ledger |-> ledger, own |-> ownSubject,
                                    calls |-> rollbackCalls], schedNext, n)
       IN /\ ledger' = st.ledger
          /\ ownSubject' = st.own
          /\ rollbackCalls' = st.calls
    /\ now' = schedNext + SCHEDULER_SLEEP * (n - 1)
    /\ schedNext' = schedNext + SCHEDULER_SLEEP * n
    /\ UNCHANGED <<allowedActions, strikerConnected, executed, evidence, actionsStatus,
                   received, strHandled, strConfigs>>
    /\ StrikerFrame

\* time passes between two wake-ups of the scheduler
TickStriker ==
    /\ strClock < MaxStrikerClock
    /\ now + SubTick < schedNext
    /\ strClock' = strClock + 1
    /\ now' = now + SubTick
    /\ UNCHANGED <<allowedActions, strikerConnected, ledger, executed, evidence,
                   actionsStatus, ownSubject, rollbackCalls, received, schedNext,
                   strHandled, strConfigs>>
    /\ StrikerFrame

\* a config push or poll result applied: settings.ALLOWED_ACTIONS = data["allowed_actions"]
ApplyStrikerConfig(allowed) ==
    /\ strConfigs < MaxConfigPush
    /\ strConfigs' = strConfigs + 1
    /\ allowedActions' = allowed
    /\ UNCHANGED <<now, strikerConnected, ledger, executed, evidence, actionsStatus,
                   ownSubject, rollbackCalls, received, schedNext, strHandled, strClock>>
    /\ StrikerFrame

\* the bus connection of the Striker drops or comes back
StrikerBusToggle ==
    /\ strikerConnected' = ~strikerConnected
    /\ UNCHANGED <<now, allowedActions, ledger, executed, evidence, actionsStatus,
                   ownSubject, rollbackCalls, received, schedNext, strHandled, strClock,
                   strConfigs>>
    /\ StrikerFrame

\* the bus client reconnects while the connection is down
StrikerReconnect == ~strikerConnected /\ StrikerBusToggle

InitStriker ==
    /\ allowedActions = AllowNone
    /\ strikerConnected = TRUE
    /\ ledger = [a \in ActionIds |-> NoEntry]
    /\ executed = <<>>
    /\ evidence = <<>>
    /\ actionsStatus = <<>>
    /\ ownSubject = <<>>
    /\ rollbackCalls = <<>>
    /\ received = <<>>
    /\ schedNext = SCHEDULER_SLEEP
    /\ strHandled = 0
    /\ strClock = 0
    /\ strConfigs = 0

\* the action executor with its configuration and bus connection
NextStriker ==
    \/ \E m \in StrikerMessages, o \in ExecuteOutcomes :
          HandleAction(m.action_id, m.action_type, m.params, o)
    \/ \E al \in AllowedChoices : ApplyStrikerConfig(al)
    \/ StrikerBusToggle

\* the action executor and the rollback scheduler over time, bus connected
NextRollback ==
    \/ \E m \in StrikerMessages, o \in ExecuteOutcomes :
          HandleAction(m.action_id, m.action_type, m.params, o)
    \/ \E n \in SleepBursts : SchedulerSleep(n)
    \/ TickStriker

(***************************************************************************)
(* Striker config updates: n7_strikers/agent_runtime/service.py             *)
(***************************************************************************)
MaxCoreVersions == 3   \* config versions Core commits for the Striker
MaxPolls == 2          \* times the poll loop finds a newer version

\* what the Striker's other services keep while the runtime service works
StrikerRest == <<strikerConnected, ledger, executed, evidence, actionsStatus, ownSubject,
                 rollbackCalls, received, schedNext, strHandled, strClock, strConfigs>>

Polls == Cardinality({i \in DOMAIN strCfgLog : strCfgLog[i].kind = "poll"})

\* a push handler without the version test
stale_never(incoming_version) == FALSE

\* _on_config_push: incoming_version <= self._config_version
stale(incoming_version) == incoming_version <= configVersion

cfg_record(kind, incoming_version, version_after, allowed_after) ==
    [ kind |-> kind, incoming |-> incoming_version,
      version_before |-> configVersion, version_after |-> version_after,
      allowed_before |-> allowedActions, allowed_after |-> allowed_after ]

\* upsert_config on Core for this Striker: the version goes up by one and the
\* full snapshot is published on n7.config.<agent_id>
CoreUpsert(allowed) ==
    /\ Len(coreConfigs) < MaxCoreVersions
    /\ coreConfigs' = Append(coreConfigs, allowed)
    /\ configPushes' = configPushes \cup {Len(coreConfigs) + 1}
    /\ UNCHANGED <<configVersion, pollStage, pollResponse, strCfgLog>>
    /\ UNCHANGED <<now, redisUp, coreConnected, allowedActions, StrikerRest>>
    /\ StrikerStrcfgFrame

\* _on_config_push for the push of version v
OnConfigPush(v) ==
    /\ v \in configPushes
    /\ configPushes' = configPushes \ {v}
    /\ IF stale(v)
       THEN /\ strCfgLog' = Append(strCfgLog, cfg_record("push", v, configVersion, allowedActions))
            /\ UNCHANGED <<configVersion, allowedActions>>
       ELSE /\ allowedActions' = coreConfigs[v]
            /\ configVersion' = v
            /\ strCfgLog' = Append(strCfgLog, cfg_record("push", v, v, coreConfigs[v]))
    /\ UNCHANGED <<coreConfigs, pollStage, pollResponse>>
    /\ UNCHANGED <<now, redisUp, coreConnected, StrikerRest>>
    /\ StrikerStrcfgFrame

\* _config_poll_loop: the first GET shows a version above the local one
PollCheck ==
    /\ pollStage = "sleeping"
    /\ Polls < MaxPolls
    /\ Len(coreConfigs) > configVersion
    /\ pollStage' = "applying"
    /\ UNCHANGED <<coreConfigs, configPushes, configVersion, pollResponse, strCfgLog>>
    /\ UNCHANGED <<now, redisUp, coreConnected, allowedActions, StrikerRest>>
    /\ StrikerStrcfgFrame

\* _apply_remote_config: Core answers the second GET with the snapshot it has
ApplyFetch ==
    /\ pollStage = "applying"
    /\ pollStage' = "responded"
    /\ pollResponse' = Len(coreConfigs)
    /\ UNCHANGED <<coreConfigs, configPushes, configVersion, strCfgLog>>
    /\ UNCHANGED <<now, redisUp, coreConnected, allowedActions, StrikerRest>>
    /\ StrikerStrcfgFrame

\* _apply_remote_config: the answer is read and applied
ApplyResponse ==
    /\ pollStage = "responded"
    /\ pollStage' = "sleeping"
    /\ pollResponse' = 0
    /\ allowedActions' = coreConfigs[pollResponse]
    /\ configVersion' = pollResponse
    /\ strCfgLog' = Append(strCfgLog, cfg_record("poll", pollResponse, pollResponse,
                                                 coreConfigs[pollResponse]))
    /\ UNCHANGED <<coreConfigs, configPushes>>
    /\ UNCHANGED <<now, redisUp, coreConnected, StrikerRest>>
    /\ StrikerStrcfgFrame

InitStrcfg ==
    /\ coreConfigs = <<>>
    /\ configPushes = {}
    /\ configVersion = 0
    /\ pollStage = "sleeping"
    /\ pollResponse = 0
    /\ strCfgLog = <<>>

NextStrcfg ==
    \/ \E al \in AllowedChoices : CoreUpsert(al)
    \/ \E v \in 1..MaxCoreVersions : OnConfigPush(v)
    \/ PollCheck
    \/ ApplyFetch
    \/ ApplyResponse

(***************************************************************************)
(* Striker handler concurrency: n7_strikers/action_executor/service.py      *)
(***************************************************************************)
MaxPending == 2        \* messages waiting on one subscription
MaxExecuted == 3       \* calls of handle_action that finish

\* ActionExecutorService.start: n7.actions.<agent_id> and n7.actions.broadcast,
\* both with cb=self.handle_action
Subscriptions == {"direct", "broadcast"}

ExecActionIds == {"a1", "a2", "a3"}

\* values a pushed config gives max_concurrent_actions
ConcurrencyCaps == {PyNone, Some(1), Some(2)}

\* the calls of handle_action that are between their first and last await
in_flight(running) == { s \in Subscriptions : running[s] # PyNone }

\* AgentRuntimeService config push: settings.MAX_CONCURRENT_ACTIONS = data[...]
ApplyConcurrencyCap(k) ==
    /\ maxConcurrent # k
    /\ maxConcurrent' = k
    /\ UNCHANGED <<now, redisUp, coreConnected, subPending, subRunning, execLog>>
    /\ ExecFrame

\* a message arrives on a subscription
DeliverAction(s, action_id) ==
    /\ Len(subPending[s]) < MaxPending
    /\ Len(execLog) + Len(subPending["direct"]) + Len(subPending["broadcast"])
          + Cardinality(in_flight(subRunning)) < MaxExecuted
    /\ \A t \in Subscriptions :
          /\ \A i \in DOMAIN subPending[t] : subPending[t][i] # action_id
          /\ IF subRunning[t] = PyNone THEN TRUE
             ELSE subRunning[t][1].action_id # action_id
    /\ \A i \in DOMAIN execLog : execLog[i].action_id # action_id
    /\ subPending' = [subPending EXCEPT ![s] = Append(@, action_id)]
    /\ UNCHANGED <<now, redisUp, coreConnected, maxConcurrent, subRunning, execLog>>
    /\ ExecFrame

\* handle_action from its entry to its first await (collect_pre_action): the
\* subscription's task takes its next message once its previous call returned;
\* settings.MAX_CONCURRENT_ACTIONS is not read
HandleActionBegin(s) ==
    /\ subRunning[s] = PyNone
    /\ subPending[s] # <<>>
    /\ subPending' = [subPending EXCEPT ![s] = Tail(@)]
    /\ subRunning' = [subRunning EXCEPT ![s] =
                        Some([action_id |-> Head(subPending[s]),
                              cap |-> maxConcurrent,
                              others |-> Cardinality(in_flight(subRunning))])]
    /\ UNCHANGED <<now, redisUp, coreConnected, maxConcurrent, execLog>>
    /\ ExecFrame

\* handle_action from its last await to its return
HandleActionEnd(s) ==
    /\ subRunning[s] # PyNone
    /\ execLog' = Append(execLog, [subscription |-> s] @@ subRunning[s][1])
    /\ subRunning' = [subRunning EXCEPT ![s] = PyNone]
    /\ UNCHANGED <<now, redisUp, coreConnected, maxConcurrent, subPending>>
    /\ ExecFrame

InitExec ==
    /\ maxConcurrent = PyNone
    /\ subPending = [s \in Subscriptions |-> <<>>]
    /\ subRunning = [s \in Subscriptions |-> PyNone]
    /\ execLog = <<>>

NextExec ==
    \/ \E k \in ConcurrencyCaps : ApplyConcurrencyCap(k)
    \/ \E s \in Subscriptions, a \in ExecActionIds : DeliverAction(s, a)
    \/ \E s \in Subscriptions : HandleActionBegin(s)
    \/ \E s \in Subscriptions : HandleActionEnd(s)

(***************************************************************************)
(* Config sync: n7_core/config_sync/service.py                              *)
(***************************************************************************)
MaxConfigCalls == 4     \* calls of provision_agent_config / upsert_config

ConfigAgents == {"ag1", "ag2"}
AgentTypes == {"sentinel", "striker"}

NoConfig == [exists |-> FALSE, config_version |-> 0, zone |-> "", allowed_actions |-> AllowNone]

\* config_dict of upsert_config: only the keys present are written
EmptyDict == [k \in {} |-> 0]
ConfigDicts == { EmptyDict,
                 [zone |-> "dmz"],
                 [allowed_actions |-> AllowOnly({"kill_process"})] }

\* the version left unchanged
bump_skipped(v) == v

\* cfg.config_version += 1
bump(v) == v + 1

\* provision_agent_config: the row after the call
provisioned(cfg, zone, allowed) ==
    IF cfg.exists
    THEN [cfg EXCEPT !.zone = zone,
                     !.allowed_actions = IF allowed.is_none THEN @ ELSE allowed,
                     !.config_version = bump(@)]
    ELSE [exists |-> TRUE, config_version |-> 1, zone |-> zone, allowed_actions |-> allowed]

\* upsert_config: the default row auto-provisioned when none exists
auto_provisioned == [exists |-> TRUE, config_version |-> 0, zone |-> "default",
                     allowed_actions |-> AllowNone]

\* upsert_config: the row after the call
upserted(cfg, config_dict) ==
    LET c0 == IF cfg.exists THEN cfg ELSE auto_provisioned
        c1 == IF "zone" \in DOMAIN config_dict
              THEN [c0 EXCEPT !.zone = config_dict["zone"]] ELSE c0
        c2 == IF "allowed_actions" \in DOMAIN config_dict
              THEN [c1 EXCEPT !.allowed_actions = config_dict["allowed_actions"]] ELSE c1
    IN [c2 EXCEPT !.config_version = bump(@)]

\* the table after a call: the commit either goes through or raises and the
\* session rolls back
committed_rows(agent_id, row, committed) ==
    IF committed THEN [agentConfigs EXCEPT ![agent_id] = row] ELSE agentConfigs

call_record(agent_id, op, row, committed) ==
    [agent_id |-> agent_id, op |-> op, ok |-> committed,
     before |-> agentConfigs[agent_id],
     after |-> IF committed THEN row ELSE agentConfigs[agent_id]]

\* provision_agent_config, from its SELECT to its commit
ProvisionAgentConfig(agent_id, zone, allowed, committed) ==
    /\ cfgCalls < MaxConfigCalls
    /\ cfgCalls' = cfgCalls + 1
    /\ LET row == provisioned(agentConfigs[agent_id], zone, allowed)
       IN /\ agentConfigs' = committed_rows(agent_id, row, committed)
          /\ cfgLog' = Append(cfgLog, call_record(agent_id, "provision", row, committed))
    /\ UNCHANGED <<now, redisUp, coreConnected>>
    /\ ConfigFrame

\* upsert_config, from its SELECT to its commit
UpsertConfig(agent_id, config_dict, committed) ==
    /\ cfgCalls < MaxConfigCalls
    /\ cfgCalls' = cfgCalls + 1
    /\ LET row == upserted(agentConfigs[agent_id], config_dict)
       IN /\ agentConfigs' = committed_rows(agent_id, row, committed)
          /\ cfgLog' = Append(cfgLog, call_record(agent_id, "upsert", row, committed))
    /\ UNCHANGED <<now, redisUp, coreConnected>>
    /\ ConfigFrame

InitConfig ==
    /\ agentConfigs = [a \in ConfigAgents |-> NoConfig]
    /\ cfgLog = <<>>
    /\ cfgCalls = 0

NextConfig ==
    \/ \E a \in ConfigAgents, z \in {"default", "dmz"}, al \in AllowedChoices,
          ok \in BOOLEAN : ProvisionAgentConfig(a, z, al, ok)
    \/ \E a \in ConfigAgents, d \in ConfigDicts, ok \in BOOLEAN : UpsertConfig(a, d, ok)

(***************************************************************************)
(* Concurrent upserts: upsert_config as two steps around its awaits         *)
(***************************************************************************)
MaxUpsertCalls == 3     \* calls of upsert_config, possibly overlapping

\* a call of upsert_config for this agent is between its SELECT and its commit
UpsertInFlight(agent_id) ==
    \E q \in DOMAIN upsertCalls :
        upsertCalls[q].agent_id = agent_id /\ upsertCalls[q].stage = "loaded"

\* agent_configs.agent_id is unique: the INSERT of a call that loaded no row
\* fails when another call has inserted the row meanwhile
insert_conflict(loaded, current) == ~loaded.exists /\ current.exists

\* session.commit() of a loaded row: the UPDATE sets the attributes the call
\* changed on its copy, config_version among them, to the values of the copy
flushed_row(loaded, current, config_dict) ==
    LET mine == upserted(loaded, config_dict)
        base == IF loaded.exists THEN loaded ELSE NoConfig
    IN IF ~loaded.exists THEN mine
       ELSE [current EXCEPT
               !.zone = IF mine.zone # base.zone THEN mine.zone ELSE @,
               !.allowed_actions = IF mine.allowed_actions # base.allowed_actions
                                   THEN mine.allowed_actions ELSE @,
               !.config_version = mine.config_version]

\* upsert_config up to the answer of its SELECT: the session holds its own
\* copy of the row
UpsertSelect(agent_id, config_dict) ==
    /\ Len(upsertCalls) < MaxUpsertCalls
    /\ upsertCalls' = Append(upsertCalls,
          [agent_id |-> agent_id, config_dict |-> config_dict, stage |-> "loaded",
           loaded |-> agentConfigs[agent_id], overlaps |-> UpsertInFlight(agent_id),
           ok |-> FALSE, returned |-> NoConfig])
    /\ UNCHANGED <<now, redisUp, coreConnected, agentConfigs, cfgLog, cfgCalls>>
    /\ ConfigCfgraceFrame

\* upsert_config from the answer of its SELECT to its return, for call c
UpsertCommit(c) ==
    /\ c \in DOMAIN upsertCalls
    /\ upsertCalls[c].stage = "loaded"
    /\ LET call == upsertCalls[c]
           current == agentConfigs[call.agent_id]
           failed == insert_conflict(call.loaded, current)
           row == flushed_row(call.loaded, current, call.config_dict)
       IN /\ agentConfigs' = IF failed THEN agentConfigs
                             ELSE [agentConfigs EXCEPT ![call.agent_id] = row]
          /\ upsertCalls' = [upsertCalls EXCEPT ![c].stage = "done", ![c].ok = ~failed,
                                                ![c].returned = IF failed THEN NoConfig ELSE row]
    /\ UNCHANGED <<now, redisUp, coreConnected, cfgLog, cfgCalls>>
    /\ ConfigCfgraceFrame

InitCfgrace ==
    /\ upsertCalls = <<>>

NextCfgrace ==
    \/ \E a \in ConfigAgents, d \in ConfigDicts : UpsertSelect(a, d)
    \/ \E c \in 1..MaxUpsertCalls : UpsertCommit(c)

(***************************************************************************)
(* Config push: n7_core/api_gateway/routers/agents.py                       *)
(***************************************************************************)
MaxPushCalls == 2      \* requests PUT /agents/{id}/config and PUT /agents/{id}

\* ids asked for: two agents with a row in the agents table, one without
PushAgentIds == ConfigAgents \cup {"ag9"}

\* select(AgentModel).where(AgentModel.id == agent_id).scalar_one_or_none()
agent_found(agent_id) == agent_id \in DOMAIN agentRecords

\* bodies of PUT /agents/{id}: agent_subtype stays on the agents table, zone
\* cascades to the agent's config
AgentUpdates == { EmptyDict,
                  [agent_subtype |-> "edr"],
                  [zone |-> "dmz"],
                  [agent_subtype |-> "edr", zone |-> "lab"] }

\* update_agent: the agents row after the request
agent_updated(row, agent_update) ==
    LET r1 == IF "agent_subtype" \in DOMAIN agent_update
              THEN [row EXCEPT !.agent_subtype = agent_update["agent_subtype"]] ELSE row
    IN IF "zone" \in DOMAIN agent_update
       THEN [r1 EXCEPT !.zone = agent_update["zone"]] ELSE r1

\* update_agent: config_fields, the part of the body that cascades
config_fields(agent_update) ==
    IF "zone" \in DOMAIN agent_update THEN [zone |-> agent_update["zone"]] ELSE EmptyDict

\* f"n7.config.{agent_id}"
config_subject(agent_id) == <<"n7", "config", agent_id>>

\* the payload without the version just committed
push_payload_unversioned(cfg) ==
    [config_version |-> 0, zone |-> cfg.zone, allowed_actions |-> cfg.allowed_actions]

\* _push_config_to_agent: payload
push_payload(cfg) ==
    [config_version |-> cfg.config_version, zone |-> cfg.zone,
     allowed_actions |-> cfg.allowed_actions]

\* _push_config_to_agent: the messages it publishes
pushed(agent_id, cfg) ==
    IF ~coreConnected THEN <<>>
    ELSE << [subject |-> config_subject(agent_id), payload |-> push_payload(cfg)] >>

push_record(route, agent_id, code, fields, after, sent) ==
    [route |-> route, agent_id |-> agent_id, code |-> code, fields |-> fields,
     before |-> IF agent_id \in DOMAIN agentConfigs THEN agentConfigs[agent_id] ELSE NoConfig,
     after |-> after, connected |-> coreConnected, sent |-> sent]

\* PUT /agents/{agent_id}/config
UpdateAgentConfig(agent_id, update_dict, committed) ==
    /\ Len(pushLog) < MaxPushCalls
    /\ IF ~agent_found(agent_id)
       THEN /\ pushLog' = Append(pushLog, push_record("config", agent_id, 404, update_dict,
                                                      NoConfig, <<>>))
            /\ UNCHANGED <<agentConfigs, configPublished>>
       ELSE IF update_dict = EmptyDict
       THEN /\ pushLog' = Append(pushLog, push_record("config", agent_id, 422, update_dict,
                                                      agentConfigs[agent_id], <<>>))
            /\ UNCHANGED <<agentConfigs, configPublished>>
       ELSE IF ~committed
       THEN /\ pushLog' = Append(pushLog, push_record("config", agent_id, 500, update_dict,
                                                      agentConfigs[agent_id], <<>>))
            /\ UNCHANGED <<agentConfigs, configPublished>>
       ELSE LET updated_cfg == upserted(agentConfigs[agent_id], update_dict)
                sent == pushed(agent_id, updated_cfg)
            IN /\ agentConfigs' = committed_rows(agent_id, updated_cfg, TRUE)
               /\ configPublished' = configPublished \o sent
               /\ pushLog' = Append(pushLog, push_record("config", agent_id, 200, update_dict,
                                                         updated_cfg, sent))
    /\ UNCHANGED <<now, redisUp, coreConnected, agentRecords, cfgLog, cfgCalls>>
    /\ ConfigPushFrame

\* PUT /agents/{agent_id}
UpdateAgent(agent_id, agent_update, committed) ==
    /\ Len(pushLog) < MaxPushCalls
    /\ IF ~agent_found(agent_id)
       THEN /\ pushLog' = Append(pushLog, push_record("agent", agent_id, 404, EmptyDict,
                                                      NoConfig, <<>>))
            /\ UNCHANGED <<agentRecords, agentConfigs, configPublished>>
       ELSE /\ agentRecords' = [agentRecords EXCEPT
                                  ![agent_id] = agent_updated(@, agent_update)]
            /\ IF config_fields(agent_update) = EmptyDict
               THEN /\ pushLog' = Append(pushLog, push_record("agent", agent_id, 200, EmptyDict,
                                                              agentConfigs[agent_id], <<>>))
                    /\ UNCHANGED <<agentConfigs, configPublished>>
               ELSE IF ~committed
               THEN /\ pushLog' = Append(pushLog, push_record("agent", agent_id, 500,
                                             config_fields(agent_update),
                                             agentConfigs[agent_id], <<>>))
                    /\ UNCHANGED <<agentConfigs, configPublished>>
               ELSE LET updated_cfg == upserted(agentConfigs[agent_id],
                                                config_fields(agent_update))
                        sent == pushed(agent_id, updated_cfg)
                    IN /\ agentConfigs' = committed_rows(agent_id, updated_cfg, TRUE)
                       /\ configPublished' = configPublished \o sent
                       /\ pushLog' = Append(pushLog, push_record("agent", agent_id, 200,
                                                config_fields(agent_update), updated_cfg, sent))
    /\ UNCHANGED <<now, redisUp, coreConnected, cfgLog, cfgCalls>>
    /\ ConfigPushFrame

\* nats_client.nc.is_connected changing
PushBusToggle ==
    /\ coreConnected' = ~coreConnected
    /\ UNCHANGED <<now, redisUp, agentRecords, configPublished, pushLog>>
    /\ PushFrame

InitPush ==
    /\ agentRecords = [a \in ConfigAgents |-> [agent_subtype |-> "", zone |-> "default"]]
    /\ configPublished = <<>>
    /\ pushLog = <<>>

NextPush ==
    \/ \E a \in PushAgentIds, d \in ConfigDicts, ok \in BOOLEAN : UpdateAgentConfig(a, d, ok)
    \/ \E a \in PushAgentIds, u \in AgentUpdates, ok \in BOOLEAN : UpdateAgent(a, u, ok)
    \/ PushBusToggle

(***************************************************************************)
(* Agent registry: n7_core/api_gateway/routers/agents.py and auth.py        *)
(***************************************************************************)
MaxAgentCalls == 4      \* HTTP requests to /agents/register and /agents/heartbeat
MaxAgentClock == 1      \* clock steps
AgentTickStep == 30

\* an API key: its first 16 characters and the rest
ApiKeys == { <<"prefixA", "k1">>, <<"prefixA", "k2">>, <<"prefixB", "k1">> }
PayloadAgentIds == {1, 2}
HeartbeatStatuses == {"degraded"}

\* api_key[:16]
api_key_prefix(key) == key[1]

\* pwd_context.hash: bcrypt draws a fresh salt for every hash
key_hash(key, salt) == <<"bcrypt", key, salt>>

\* a verification that accepts no key
verify_never(key, hash) == FALSE

\* pwd_context.verify: the key hashed with the salt of the stored hash
verify(key, hash) == hash = key_hash(key, hash[3])

\* the CA key and certificate files are in place
ca_available == TRUE

\* generate_agent_cert: a new key pair and a random serial number on each call;
\* the response carries no certificate when it raises
generate_agent_cert(agent_id) ==
    IF ca_available THEN Some([subject |-> agent_id, serial |-> certsIssued + 1]) ELSE PyNone

\* select(Agent).where(Agent.api_key_prefix == prefix): the ids of the rows found
rows_with_prefix(prefix) ==
    {i \in DOMAIN agentsTable : agentsTable[i].api_key_prefix = prefix}

\* get_agent_from_api_key: the id of the authenticated agent, 0 when it answers 401
authenticated_agent(key) ==
    LET found == rows_with_prefix(api_key_prefix(key))
    IN IF found = {} THEN 0
       ELSE LET i == CHOOSE x \in found : TRUE
            IN IF verify(key, agentsTable[i].api_key_hash) THEN i ELSE 0

\* a check that lets every payload through
id_mismatch_ignored(payload_id, auth_id) == FALSE

\* str(heartbeat_in.agent_id) != str(authenticated_agent.id)
id_mismatch(payload_id, auth_id) == payload_id # auth_id

\* POST /agents/register
RegisterAgent(key) ==
    /\ agentCalls < MaxAgentCalls
    /\ agentCalls' = agentCalls + 1
    /\ LET found == rows_with_prefix(api_key_prefix(key))
           existing == IF found = {} THEN 0 ELSE CHOOSE x \in found : TRUE
           code == IF existing # 0 /\ ~verify(key, agentsTable[existing].api_key_hash)
                   THEN 400     \* key collision
                   ELSE 200
           after ==
              IF code = 400 THEN agentsTable
              ELSE IF existing # 0
              THEN \* re-registration
                   [agentsTable EXCEPT ![existing].last_heartbeat = now,
                                       ![existing].status = "active"]
              ELSE Append(agentsTable,
                          [ id |-> Len(agentsTable) + 1,
                            api_key_prefix |-> api_key_prefix(key),
                            api_key_hash |-> key_hash(key, Len(agentsTable) + 1),
                            status |-> "active",
                            last_heartbeat |-> now,
                            resource_usage |-> "none" ])
           id == IF existing # 0 THEN existing ELSE Len(agentsTable) + 1
       IN /\ agentsTable' = after
          /\ certsIssued' = IF code = 200 /\ ca_available THEN certsIssued + 1 ELSE certsIssued
          /\ regLog' = Append(regLog,
                              [ key |-> key, code |-> code, at |-> now,
                                id |-> IF code = 200 THEN id ELSE 0,
                                client_cert |-> IF code = 200 THEN generate_agent_cert(id)
                                                ELSE PyNone,
                                before |-> agentsTable, after |-> after ])
    /\ UNCHANGED <<now, redisUp, coreConnected, hbLog, agentClock>>
    /\ AgentsFrame

\* POST /agents/heartbeat with header X-Agent-API-Key = key
Heartbeat(key, payload_id, status, usage) ==
    /\ agentCalls < MaxAgentCalls
    /\ agentCalls' = agentCalls + 1
    /\ LET auth == authenticated_agent(key)
           code == IF auth = 0 THEN 401
                   ELSE IF id_mismatch(payload_id, auth) THEN 403
                   ELSE IF auth \notin DOMAIN agentsTable THEN 404
                   ELSE 200
           after == IF code = 200
                    THEN [agentsTable EXCEPT ![auth].last_heartbeat = now,
                                             ![auth].status = status,
                                             ![auth].resource_usage = usage]
                    ELSE agentsTable
       IN /\ agentsTable' = after
          /\ hbLog' = Append(hbLog, [ key |-> key, payload_id |-> payload_id,
                                      status |-> status, usage |-> usage,
                                      code |-> code, at |-> now,
                                      before |-> agentsTable, after |-> after ])
    /\ UNCHANGED <<now, redisUp, coreConnected, agentClock, regLog, certsIssued>>
    /\ AgentsFrame

TickAgents ==
    /\ agentClock < MaxAgentClock
    /\ agentClock' = agentClock + 1
    /\ now' = now + AgentTickStep
    /\ UNCHANGED <<redisUp, coreConnected, agentsTable, hbLog, agentCalls, regLog,
                   certsIssued>>
    /\ AgentsFrame

InitAgents ==
    /\ agentsTable = <<>>
    /\ hbLog = <<>>
    /\ agentCalls = 0
    /\ agentClock = 0
    /\ regLog = <<>>
    /\ certsIssued = 0

NextAgents ==
    \/ \E k \in ApiKeys : RegisterAgent(k)
    \/ \E k \in ApiKeys, p \in PayloadAgentIds, s \in HeartbeatStatuses :
          Heartbeat(k, p, s, "cpu:50")
    \/ TickAgents

(***************************************************************************)
(* Concurrent registrations: register_agent as two steps around its awaits  *)
(***************************************************************************)
MaxRegRequests == 3     \* POST /agents/register requests, possibly overlapping

RegKeys == { <<"prefixA", "k1">>, <<"prefixB", "k1">>, <<"prefixC", "k2">> }

\* the agents table has no unique constraint on api_key_prefix (index=True only)
prefix_conflict(prefix) == FALSE

\* api_key_hash is unique=True
hash_conflict(hash) == \E i \in DOMAIN agentsTable : agentsTable[i].api_key_hash = hash

\* a request with this key is between its SELECT and its commit
InFlight(key) ==
    \E q \in DOMAIN regRequests : regRequests[q].key = key /\ regRequests[q].stage = "selected"

\* register_agent up to the answer of its SELECT: the request remembers the
\* row it found (0: none); more than one row makes scalar_one_or_none raise
RegisterSelect(key) ==
    /\ Len(regRequests) < MaxRegRequests
    /\ LET found == rows_with_prefix(api_key_prefix(key))
       IN regRequests' = Append(regRequests,
             IF Cardinality(found) > 1
             THEN [key |-> key, stage |-> "done", existing |-> 0, code |-> 500, id |-> 0,
                   overlaps |-> InFlight(key)]
             ELSE [key |-> key, stage |-> "selected", overlaps |-> InFlight(key),
                   existing |-> IF found = {} THEN 0 ELSE CHOOSE x \in found : TRUE,
                   code |-> 0, id |-> 0])
    /\ UNCHANGED <<now, redisUp, coreConnected, agentsTable, hbLog, agentCalls, agentClock,
                   regLog, certsIssued>>
    /\ AgentsRegraceFrame

\* register_agent from the answer of the SELECT to the response, for request r
RegisterCommit(r) ==
    /\ r \in DOMAIN regRequests
    /\ regRequests[r].stage = "selected"
    /\ LET req == regRequests[r]
           key == req.key
           hash == key_hash(key, <<"request", r>>)
           code == IF req.existing # 0
                   THEN IF verify(key, agentsTable[req.existing].api_key_hash)
                        THEN 200 ELSE 400
                   ELSE IF prefix_conflict(api_key_prefix(key)) \/ hash_conflict(hash)
                        THEN 500 ELSE 200
           id == IF code # 200 THEN 0
                 ELSE IF req.existing # 0 THEN req.existing ELSE Len(agentsTable) + 1
       IN /\ agentsTable' =
                IF code # 200 THEN agentsTable
                ELSE IF req.existing # 0
                THEN [agentsTable EXCEPT ![req.existing].last_heartbeat = now,
                                         ![req.existing].status = "active"]
                ELSE Append(agentsTable,
                            [ id |-> id,
                              api_key_prefix |-> api_key_prefix(key),
                              api_key_hash |-> hash,
                              status |-> "active",
                              last_heartbeat |-> now,
                              resource_usage |-> "none" ])
          /\ certsIssued' = IF code = 200 /\ ca_available THEN certsIssued + 1 ELSE certsIssued
          /\ regRequests' = [regRequests EXCEPT ![r].stage = "done", ![r].code = code,
                                                ![r].id = id]
    /\ UNCHANGED <<now, redisUp, coreConnected, hbLog, agentCalls, agentClock, regLog>>
    /\ AgentsRegraceFrame

InitRegrace ==
    /\ regRequests = <<>>

NextRegrace ==
    \/ \E k \in RegKeys : RegisterSelect(k)
    \/ \E r \in 1..MaxRegRequests : RegisterCommit(r)

(***************************************************************************)
(* Agent liveness: n7_core/agent_manager/service.py, list_agents            *)
(***************************************************************************)
AGENT_STALE_THRESHOLD_SECONDS == 90

MaxManagerCalls == 2     \* heartbeats delivered on n7.heartbeat.>
MaxLists == 1            \* requests GET /agents/
MaxLivenessClock == 5    \* clock steps of the liveness scenario
LivenessTickStep == 30

\* AgentManagerService.handle_heartbeat: the row of agent_id is refreshed; for
\* an unknown agent_id the Agent built without api_key_prefix and api_key_hash
\* violates NOT NULL at commit, and the except logs it
ManagerHeartbeat(agent_id, status) ==
    /\ managerCalls < MaxManagerCalls
    /\ managerCalls' = managerCalls + 1
    /\ agentsTable' = IF agent_id \in DOMAIN agentsTable
                      THEN [agentsTable EXCEPT ![agent_id].last_heartbeat = now,
                                               ![agent_id].status = status,
                                               ![agent_id].resource_usage = "none"]
                      ELSE agentsTable
    /\ UNCHANGED <<now, redisUp, coreConnected, hbLog, agentCalls, agentClock, regLog,
                   certsIssued, listLog, livenessClock>>
    /\ AgentsLivenessFrame

\* the status list_agents answers for a row: the session is closed before the
\* loop, so the assignment reaches the answer only
listed_status(row) ==
    IF row.last_heartbeat < now - AGENT_STALE_THRESHOLD_SECONDS THEN "inactive"
    ELSE row.status

\* GET /agents/
ListAgents ==
    /\ Len(listLog) < MaxLists
    /\ listLog' = Append(listLog, [at |-> now,
                                   agents |-> [i \in DOMAIN agentsTable |->
                                                 listed_status(agentsTable[i])]])
    /\ UNCHANGED <<now, redisUp, coreConnected, managerCalls, livenessClock>>
    /\ LivenessFrame

TickLiveness ==
    /\ livenessClock < MaxLivenessClock
    /\ livenessClock' = livenessClock + 1
    /\ now' = now + LivenessTickStep
    /\ UNCHANGED <<redisUp, coreConnected, listLog, managerCalls>>
    /\ LivenessFrame

InitLiveness ==
    /\ listLog = <<>>
    /\ managerCalls = 0
    /\ livenessClock = 0

\* AgentManagerService.start subscribes to the heartbeat subjects and starts
\* no periodic task
NextLiveness ==
    \/ \E k \in {<<"prefixA", "k1">>} : RegisterAgent(k)
    \/ \E id \in PayloadAgentIds, s \in {"active"} : ManagerHeartbeat(id, s)
    \/ ListAgents
    \/ TickLiveness

(***************************************************************************)
(* LLM enricher: n7_core/llm_analyzer/service.py                            *)
(***************************************************************************)
cache_ttl == 3600

MaxLlmDeliveries == 3   \* deliveries on n7.llm.analyze
MaxLlmClock == 2        \* clock steps
LlmTickSteps == {1800, 3600}

LlmAlertIds == {"al1", "al2"}
\* what the POST to Ollama does: one of two answers, or one of the failures
\* the try block of _generate_narrative ends in
InferenceFailures == {"timeout", "connect_error", "malformed_json"}
OllamaOutcomes == {"answer1", "answer2"} \cup InferenceFailures

\* bundle["reasoning"] of the bundle _create_alert published for alert a
bundle_reasoning(a) == <<"reasoning", a>>

NoNarrative == [narrative |-> "", mitre_tactic |-> "", mitre_technique |-> "",
                remediation |-> ""]

\* a fallback text that carries the time it was built at
fallback_narrative_dated(reasoning) == <<"fallback narrative", reasoning, now>>

\* _fallback_narrative: rule, source, count, tactics and the multi-stage flag
\* of the reasoning, put into a fixed sentence
fallback_narrative(reasoning) == <<"fallback narrative", reasoning>>

\* _fallback_remediation: the five canned steps around the rule name
fallback_remediation(reasoning) == <<"fallback remediation", reasoning>>

\* _generate_narrative for a bundle with the given reasoning
generate_narrative(reasoning, outcome) ==
    IF outcome \in InferenceFailures
    THEN [ narrative |-> fallback_narrative(reasoning),
           mitre_tactic |-> <<"mitre_tactics", reasoning>>,
           mitre_technique |-> <<"mitre_techniques", reasoning>>,
           remediation |-> fallback_remediation(reasoning) ]
    ELSE [ narrative |-> <<outcome, "narrative">>,
           mitre_tactic |-> <<outcome, "tactic">>,
           mitre_technique |-> <<outcome, "technique">>,
           remediation |-> <<outcome, "remediation">> ]

\* json.dumps(narrative_data) / json.loads(cached_raw)
json_dumps(d) == << <<"narrative", d.narrative>>, <<"mitre_tactic", d.mitre_tactic>>,
                    <<"mitre_technique", d.mitre_technique>>,
                    <<"remediation", d.remediation>> >>

json_field(raw, key, default) ==
    IF \E i \in DOMAIN raw : raw[i][1] = key
    THEN raw[CHOOSE i \in DOMAIN raw : raw[i][1] = key][2]
    ELSE default

json_loads(raw) ==
    [ narrative |-> json_field(raw, "narrative", ""),
      mitre_tactic |-> json_field(raw, "mitre_tactic", ""),
      mitre_technique |-> json_field(raw, "mitre_technique", ""),
      remediation |-> json_field(raw, "remediation", "") ]

\* the narrative never cached
cache_store_skipped(cache, a, data) == cache

\* redis_client.set(cache_key, json.dumps(narrative_data), ex=self._cache_ttl)
cache_store(cache, a, data) ==
    [cache EXCEPT ![a] = [exp |-> now + cache_ttl, raw |-> json_dumps(data)]]

\* ThreatCorrelatorService._create_alert seen from here: the alert row is
\* committed and its bundle is put on n7.llm.analyze
PublishBundle(a) ==
    /\ a \notin llmInFlight
    /\ llmInFlight' = llmInFlight \cup {a}
    /\ alertLlmFields' = [alertLlmFields EXCEPT ![a] = [exists |-> TRUE, fields |-> NoNarrative]]
    /\ UNCHANGED <<now, redisUp, coreConnected, llmCache, generateCalls, llmWrites,
                   enrichedAlerts, llmDeliveries, llmClock>>
    /\ LlmFrame

\* _handle_analyze_request for one delivery of the bundle of alert a; the
\* bundle stays in flight, so that it can be delivered again
HandleAnalyzeRequest(a, outcome) ==
    /\ a \in llmInFlight
    /\ llmDeliveries < MaxLlmDeliveries
    /\ llmDeliveries' = llmDeliveries + 1
    /\ IF ~redisUp
       THEN \* redis_client.get raises: logged by the outer except
            UNCHANGED <<llmCache, generateCalls, llmWrites, alertLlmFields, enrichedAlerts>>
       ELSE LET hit == Live(llmCache[a].exp)
                narrative_data == IF hit THEN json_loads(llmCache[a].raw)
                                  ELSE generate_narrative(bundle_reasoning(a), outcome)
            IN /\ generateCalls' = IF hit THEN generateCalls
                                   ELSE Append(generateCalls,
                                               [alert_id |-> a, at |-> now,
                                                reasoning |-> bundle_reasoning(a),
                                                outcome |-> outcome,
                                                delivery |-> llmDeliveries + 1,
                                                result |-> narrative_data])
               /\ llmCache' = IF hit THEN llmCache ELSE cache_store(llmCache, a, narrative_data)
               /\ llmWrites' = Append(llmWrites, [alert_id |-> a, at |-> now,
                                                  fields |-> narrative_data])
               /\ alertLlmFields' = IF alertLlmFields[a].exists
                                    THEN [alertLlmFields EXCEPT ![a].fields = narrative_data]
                                    ELSE alertLlmFields
               /\ enrichedAlerts' = IF coreConnected
                                    THEN Append(enrichedAlerts,
                                                [alert_id |-> a, at |-> now,
                                                 llm_narrative |-> narrative_data.narrative])
                                    ELSE enrichedAlerts
    /\ UNCHANGED <<now, redisUp, coreConnected, llmInFlight, llmClock>>
    /\ LlmFrame

TickLlm(d) ==
    /\ llmClock < MaxLlmClock
    /\ llmClock' = llmClock + 1
    /\ now' = now + d
    /\ UNCHANGED <<redisUp, coreConnected, llmInFlight, llmCache, generateCalls, llmWrites,
                   alertLlmFields, enrichedAlerts, llmDeliveries>>
    /\ LlmFrame

InitLlm ==
    /\ llmInFlight = {}
    /\ llmCache = [a \in LlmAlertIds |-> [exp |-> 0, raw |-> <<>>]]
    /\ generateCalls = <<>>
    /\ llmWrites = <<>>
    /\ alertLlmFields = [a \in LlmAlertIds |-> [exists |-> FALSE, fields |-> NoNarrative]]
    /\ enrichedAlerts = <<>>
    /\ llmDeliveries = 0
    /\ llmClock = 0

NextLlm ==
    \/ \E a \in LlmAlertIds : PublishBundle(a)
    \/ \E a \in LlmAlertIds, o \in OllamaOutcomes : HandleAnalyzeRequest(a, o)
    \/ \E d \in LlmTickSteps : TickLlm(d)

\* the LLM enricher with a cache that becomes unreachable and comes back
NextCacheDown ==
    \/ \E a \in LlmAlertIds : PublishBundle(a)
    \/ \E a \in LlmAlertIds, o \in OllamaOutcomes : HandleAnalyzeRequest(a, o)
    \/ \E d \in LlmTickSteps : TickLlm(d)
    \/ RedisToggle

(***************************************************************************)
(* Audit logger: n7_core/audit_logger/service.py, n7_core/models/audit_log.py *)
(***************************************************************************)
MaxAuditCalls == 3      \* calls of log_entry
MaxAuditInFlight == 2   \* calls of log_entry suspended at an await
MaxAuditClock == 2      \* clock steps between calls
AuditTickStep == 1

AuditActors == {"system"}
AuditActions == {"alert_generated"}
AuditResources == {PyNone, Some("al1")}
AuditDetails == {PyNone, Some(<< <<"source_ip", "10.0.0.1">>, <<"outcome", "failure">> >>)}

\* str(uuid), datetime.isoformat()
uuid_str(u) == <<"uuid", u>>
isoformat(t) == <<"iso", t>>

\* AuditLog.calculate_hash: SHA-256 of the concatenated arguments, kept as the
\* tuple of them; a hash is a tuple, and the empty string of
\* `previous_hash or ''` is the empty tuple
calculate_hash(log_id, timestamp, actor, action, resource, details, previous_hash) ==
    <<log_id, timestamp, actor, action, resource, details, or_else(previous_hash, <<>>)>>

\* select(AuditLog).order_by(AuditLog.timestamp.desc()).limit(1): a row with
\* the greatest timestamp (any of them when several share it), or None
latest_entries(rows) ==
    IF rows = <<>> THEN {PyNone}
    ELSE {Some(rows[i]) : i \in {k \in DOMAIN rows :
                                   \A j \in DOMAIN rows : rows[j].timestamp <= rows[k].timestamp}}

in_flight_slots == 1..MaxAuditInFlight
NoCall == [stage |-> "idle"]

\* log_entry, lines 47-51: the session is opened and the SELECT of the most
\* recent row is answered
LogEntrySelect(s, actor, action, resource, details) ==
    /\ auditCalls < MaxAuditCalls
    /\ auditInFlight[s].stage = "idle"
    /\ auditCalls' = auditCalls + 1
    /\ \E previous_entry \in latest_entries(auditRows) :
          auditInFlight' = [auditInFlight EXCEPT ![s] =
             [ stage |-> "selected", actor |-> actor, action |-> action,
               resource |-> resource, details |-> details,
               previous_hash |-> IF previous_entry = PyNone THEN PyNone
                                 ELSE Some(previous_entry[1].current_hash) ]]
    /\ UNCHANGED <<now, redisUp, coreConnected, auditRows, auditUuids, auditClock>>
    /\ AuditFrame

\* log_entry, lines 53-80: timestamp, log_id, hash and the AuditLog object.
\* datetime.utcnow() counts microseconds, so no two calls read the same value:
\* the clock moves on by one unit after each reading.
\* AuditLog.__table__.columns['log_id'].default.arg is what SQLAlchemy made of
\* uuid.uuid4; calling it without an argument either returns a fresh UUID or
\* raises, and the except of line 85 ends the call.
LogEntryBuild(s, default_arg) ==
    /\ auditInFlight[s].stage = "selected"
    /\ IF default_arg = "raises"
       THEN /\ auditInFlight' = [auditInFlight EXCEPT ![s] = NoCall]
            /\ UNCHANGED auditUuids
            /\ now' = now + 1
       ELSE LET c == auditInFlight[s]
                timestamp == now
                log_id == uuid_str(auditUuids + 1)
                details == or_else(c.details, <<>>)
                current_hash == calculate_hash(log_id, isoformat(timestamp), c.actor, c.action,
                                               or_else(c.resource, ""), SortKeys(details),
                                               c.previous_hash)
            IN /\ auditUuids' = auditUuids + 1
               /\ now' = now + 1
               /\ auditInFlight' = [auditInFlight EXCEPT ![s] =
                     [ stage |-> "built",
                       audit_entry |-> [ timestamp |-> timestamp, actor |-> c.actor,
                                         action |-> c.action, resource |-> c.resource,
                                         details |-> details,
                                         previous_hash |-> c.previous_hash,
                                         current_hash |-> current_hash ] ]]
    /\ UNCHANGED <<redisUp, coreConnected, auditRows, auditCalls, auditClock>>
    /\ AuditFrame

\* the column default of log_id (audit_log.py line 18) fills the key at flush
with_default_log_id(audit_entry, u) ==
    [ log_id |-> u, timestamp |-> audit_entry.timestamp, actor |-> audit_entry.actor,
      action |-> audit_entry.action, resource |-> audit_entry.resource,
      details |-> audit_entry.details, previous_hash |-> audit_entry.previous_hash,
      current_hash |-> audit_entry.current_hash ]

\* log_entry, line 81: session.commit() inserts the row
LogEntryCommit(s) ==
    /\ auditInFlight[s].stage = "built"
    /\ auditUuids' = auditUuids + 1
    /\ auditRows' = Append(auditRows,
                           with_default_log_id(auditInFlight[s].audit_entry, auditUuids + 1))
    /\ auditInFlight' = [auditInFlight EXCEPT ![s] = NoCall]
    /\ UNCHANGED <<now, redisUp, coreConnected, auditCalls, auditClock>>
    /\ AuditFrame

TickAudit ==
    /\ auditClock < MaxAuditClock
    /\ auditClock' = auditClock + 1
    /\ now' = now + AuditTickStep
    /\ UNCHANGED <<redisUp, coreConnected, auditRows, auditInFlight, auditCalls, auditUuids>>
    /\ AuditFrame

\* select(AuditLog).order_by(AuditLog.timestamp.asc()): the orders in which
\* the rows can come back, as sequences of row numbers
timestamp_asc(rows) ==
    { p \in [DOMAIN rows -> DOMAIN rows] :
        /\ \A i, j \in DOMAIN rows : i # j => p[i] # p[j]
        /\ \A i, j \in DOMAIN rows : i < j => rows[p[i]].timestamp <= rows[p[j]].timestamp }

expected_hash(entry) ==
    calculate_hash(uuid_str(entry.log_id), isoformat(entry.timestamp), entry.actor, entry.action,
                   or_else(entry.resource, ""), SortKeys(entry.details), entry.previous_hash)

\* verify_hash_chain over the rows in the order p
RECURSIVE verify_from(_, _, _, _)
verify_from(rows, p, i, previous_hash) ==
    IF i > Len(rows) THEN TRUE
    ELSE LET entry == rows[p[i]]
         IN IF expected_hash(entry) # entry.current_hash THEN FALSE
            ELSE IF entry.previous_hash # previous_hash THEN FALSE
            ELSE verify_from(rows, p, i + 1, Some(entry.current_hash))

verify_hash_chain(rows, p) == verify_from(rows, p, 1, PyNone)

InitAudit ==
    /\ auditRows = <<>>
    /\ auditInFlight = [s \in in_flight_slots |-> NoCall]
    /\ auditCalls = 0
    /\ auditUuids = 0
    /\ auditClock = 0

NextAudit ==
    \/ \E s \in in_flight_slots, actor \in AuditActors, action \in AuditActions,
          resource \in AuditResources, details \in AuditDetails :
          LogEntrySelect(s, actor, action, resource, details)
    \/ \E s \in in_flight_slots, default_arg \in {"returns", "raises"} : LogEntryBuild(s, default_arg)
    \/ \E s \in in_flight_slots : LogEntryCommit(s)
    \/ TickAudit

(***************************************************************************)
(* Decision engine, status reports: n7_core/decision_engine/service.py      *)
(***************************************************************************)
MaxStatusDeliveries == 3   \* deliveries on n7.actions.status
MaxDispatches == 1         \* actions dispatched with a row of their own

\* action_id of a report: two UUIDs, a string that is no UUID, and none
ReportActionIds == {"a1", "a2", "not-a-uuid", ""}
RowActionIds == {"a1", "a2"}

EmptyJson == <<>>
\* the reports a Striker publishes (action_executor/service.py 121-127, 189-195, 205-210)
StatusReports ==
    { [ action_type |-> "network_block", status |-> "succeeded",
        result_data |-> << <<"success", "true">> >>,
        evidence |-> << <<"connections", "snapshot">> >> ],
      [ action_type |-> "network_block", status |-> "failed",
        result_data |-> EmptyJson,
        evidence |-> << <<"connections", "snapshot">> >> ],
      [ action_type |-> "kill_process", status |-> "rejected",
        result_data |-> << <<"error", "not in allowed_actions">> >>,
        evidence |-> EmptyJson ] }

NoActionRow == [ exists |-> FALSE, action_type |-> "", status |-> "", initiated_by |-> "",
                 evidence |-> EmptyJson, rollback_entry |-> PyNone ]

\* {**d, key: value}
RECURSIVE dict_with(_, _, _)
dict_with(d, key, value) ==
    IF d = <<>> THEN << <<key, value>> >>
    ELSE IF Head(d)[1] = key THEN << <<key, value>> >> \o Tail(d)
    ELSE <<Head(d)>> \o dict_with(Tail(d), key, value)

\* uuid.UUID(action_id_str) raises ValueError
not_a_uuid(action_id_str) == action_id_str \notin RowActionIds

\* the row built when no row is found
created_row(report) ==
    [ exists |-> TRUE, action_type |-> report.action_type, status |-> report.status,
      initiated_by |-> "auto", evidence |-> report.evidence, rollback_entry |-> Some(EmptyJson) ]

\* the row found, after the assignments of the else branch
updated_row(action, report) ==
    [ action EXCEPT
        !.status = report.status,
        !.evidence = IF report.evidence # EmptyJson THEN report.evidence ELSE @,
        !.rollback_entry = IF report.result_data # EmptyJson
                           THEN Some(dict_with(or_else(@, EmptyJson), "execution_result",
                                               report.result_data))
                           ELSE @ ]

\* dispatch_actions (api_gateway/routers/alerts.py) and the playbook engine
\* persist a queued row before they publish the action
DispatchWithRow(a, action_type) ==
    /\ statusDispatches < MaxDispatches
    /\ ~actionsTable[a].exists
    /\ statusDispatches' = statusDispatches + 1
    /\ actionsTable' = [actionsTable EXCEPT ![a] =
          [ exists |-> TRUE, action_type |-> action_type, status |-> "queued",
            initiated_by |-> "operator", evidence |-> EmptyJson, rollback_entry |-> PyNone ]]
    /\ UNCHANGED <<now, redisUp, coreConnected, statusLog, statusDeliveries>>
    /\ DecisionFrame

\* handle_action_status for one delivery of a report
HandleActionStatus(action_id_str, report) ==
    /\ statusDeliveries < MaxStatusDeliveries
    /\ statusDeliveries' = statusDeliveries + 1
    /\ IF action_id_str = "" \/ not_a_uuid(action_id_str)
       THEN UNCHANGED <<actionsTable, statusLog>>
       ELSE LET action == actionsTable[action_id_str]
                after == IF ~action.exists THEN created_row(report)
                         ELSE updated_row(action, report)
            IN /\ actionsTable' = [actionsTable EXCEPT ![action_id_str] = after]
               /\ statusLog' = Append(statusLog, [ action_id |-> action_id_str, report |-> report,
                                                   before |-> action, after |-> after ])
    /\ UNCHANGED <<now, redisUp, coreConnected, statusDispatches>>
    /\ DecisionFrame

InitDecision ==
    /\ actionsTable = [a \in RowActionIds |-> NoActionRow]
    /\ statusLog = <<>>
    /\ statusDeliveries = 0
    /\ statusDispatches = 0

NextDecision ==
    \/ \E a \in RowActionIds, t \in {"network_block", "kill_process"} : DispatchWithRow(a, t)
    \/ \E a \in ReportActionIds, r \in StatusReports : HandleActionStatus(a, r)

(***************************************************************************)
(* Decision engine, verdicts: n7_core/decision_engine/service.py            *)
(***************************************************************************)
MaxAlertsHandled == 2   \* alerts delivered on n7.alerts

\* d.get(key) for a text value (None reads as ""), and for a flag
get_text(d, key) == IF key \in DOMAIN d THEN d[key] ELSE ""
get_flag(d, key) == key \in DOMAIN d /\ d[key]

\* _create_alert, lines 279-287: the reasoning of a minted alert
minted_reasoning(rule_id, source) ==
    [ rule |-> CORRELATION_RULES(rule_id).name,
      source |-> source,
      is_multi_stage |-> CORRELATION_RULES(rule_id).multi_stage # NoStage ]

\* _handle_analyze_request, lines 193-215: the alert republished on n7.alerts
enriched_alert(alert_id, severity, threat_score, reasoning, narrative_data) ==
    [ alert_id |-> alert_id, severity |-> severity, threat_score |-> threat_score,
      reasoning |-> [k \in DOMAIN reasoning
                              \cup {"llm_narrative", "llm_mitre_tactic", "llm_mitre_technique"} |->
                        CASE k = "llm_narrative" -> narrative_data.narrative
                          [] k = "llm_mitre_tactic" -> narrative_data.mitre_tactic
                          [] k = "llm_mitre_technique" -> narrative_data.mitre_technique
                          [] OTHER -> reasoning[k]] ]

\* the alert a rule mints for a source, after enrichment
minted_alert(rule_id, source) ==
    LET rule == CORRELATION_RULES(rule_id)
        is_multi_stage == rule.multi_stage # NoStage
    IN enriched_alert(<<"alert", rule_id, source>>, rule.severity,
                      calculate_threat_score(rule.severity, is_multi_stage, rule_id),
                      minted_reasoning(rule_id, source),
                      generate_narrative(minted_reasoning(rule_id, source), "answer1"))

MintedAlerts == {minted_alert(r, s) : r \in RuleIds, s \in CorrSources}

\* other alerts a publisher on n7.alerts can send
CraftedReasonings ==
    { [rule |-> "Brute Force", source_ip |-> "ip1"],
      [rule |-> "Brute Force"],
      [rule |-> "Port Scan", source_ip |-> "ip1"],
      [rule |-> "Lateral Movement Detection", is_multi_stage |-> TRUE, source |-> ""],
      [rule |-> "Lateral Movement Detection", is_multi_stage |-> FALSE, source |-> "ip1"] }

CraftedAlerts ==
    { [ alert_id |-> <<"alert", "crafted">>, severity |-> sev, threat_score |-> score,
        reasoning |-> rs ] :
        sev \in {"critical", "High", "medium", "low"}, score \in {70, 71},
        rs \in CraftedReasonings }

DecisionAlerts == MintedAlerts \cup CraftedAlerts

\* handle_alert, lines 59-90: verdict and action_to_take
policy(alert) ==
    LET severity == IF alert.severity = "High" THEN "high" ELSE alert.severity
        reasoning == alert.reasoning
    IN CASE severity = "critical" ->
              IF get_flag(reasoning, "is_multi_stage") /\ get_text(reasoning, "source") # ""
              THEN [ verdict |-> "auto_respond",
                     action_to_take |-> Some([ action_type |-> "isolate_host",
                                               reason |-> get_text(reasoning, "rule"),
                                               alert_id |-> alert.alert_id,
                                               source |-> get_text(reasoning, "source") ]) ]
              ELSE [ verdict |-> "escalate", action_to_take |-> PyNone ]
         [] severity = "high" ->
              IF alert.threat_score > 70
              THEN [ verdict |-> "auto_respond",
                     action_to_take |->
                        IF get_text(reasoning, "rule") = "Brute Force"
                           /\ get_text(reasoning, "source_ip") # ""
                        THEN Some([ action_type |-> "network_block",
                                    target |-> get_text(reasoning, "source_ip"),
                                    duration |-> 3600 ])
                        ELSE PyNone ]
              ELSE [ verdict |-> "dismiss", action_to_take |-> PyNone ]
         [] severity = "medium" -> [ verdict |-> "escalate", action_to_take |-> PyNone ]
         [] OTHER -> [ verdict |-> "dismiss", action_to_take |-> PyNone ]

\* handle_alert, lines 97-113
dispatched(p) == p.verdict = "auto_respond" /\ p.action_to_take # PyNone

\* handle_alert for one alert delivered on n7.alerts
HandleAlert(alert) ==
    /\ alertsHandled < MaxAlertsHandled
    /\ alertsHandled' = alertsHandled + 1
    /\ LET p == policy(alert)
       IN /\ verdictLog' = Append(verdictLog, [ alert |-> alert, verdict |-> p.verdict ])
          /\ actionsBroadcast' =
                IF dispatched(p) /\ coreConnected
                THEN Append(actionsBroadcast,
                            [ for_call |-> Len(verdictLog) + 1,
                              action_id |-> Len(actionsBroadcast) + 1,
                              alert_id |-> alert.alert_id,
                              type |-> p.action_to_take[1].action_type,
                              params |-> p.action_to_take[1] ])
                ELSE actionsBroadcast
    /\ UNCHANGED alertVerdicts   \* "Persist verdict update (Optional for MVP speed ...)": no write
    /\ UNCHANGED <<now, redisUp, coreConnected>>
    /\ VerdictFrame

\* the rows _create_alert wrote for the minted alerts: verdict="pending"
InitVerdict ==
    /\ alertVerdicts = [a \in {m.alert_id : m \in MintedAlerts} |-> "pending"]
    /\ verdictLog = <<>>
    /\ actionsBroadcast = <<>>
    /\ alertsHandled = 0

NextVerdict == \E alert \in DecisionAlerts : HandleAlert(alert)

(***************************************************************************)
(* Operator dispatch: api_gateway/routers/alerts.py and the Strikers'       *)
(* subscriptions, action_executor/service.py                                *)
(***************************************************************************)
MaxBusActions == 3     \* action messages published by Core

StrikerIds == {"s1", "s2"}
DispatchAlertIds == {"al1", "missing"}
DispatchActionTypes == {"network_block", "kill_process"}

\* select(AlertModel).where(alert_id == ...).scalar_one_or_none()
alert_exists(alert_id) == alert_id = "al1"

\* ActionExecutorService.start: the subscriptions of one Striker
striker_subscriptions(s) ==
    { [striker |-> s, subject |-> <<"n7", "actions", s>>, queue |-> ""],
      [striker |-> s, subject |-> <<"n7", "actions", "broadcast">>,
       queue |-> "action_executor"] }

\* the server picks a queue group's receiver among its members
queue_member(chosen) == busSubs = {} \/ \E sub \in busSubs : sub.striker = chosen

\* the subscriptions a message on subject reaches: every subscription without
\* a queue group, and one member of each queue group
receivers(subject, chosen) ==
    { sub \in busSubs : /\ sub.subject = subject
                        /\ (sub.queue = "" \/ sub.striker = chosen) }

deliveries(subject, action_id, chosen) ==
    { [striker |-> sub.striker, action_id |-> action_id, subject |-> subject] :
        sub \in receivers(subject, chosen) }

\* f"n7.actions.{action.action_type}"
dispatch_subject(action_type) == <<"n7", "actions", action_type>>

\* a Striker starts with its bus connection up
StrikerStart(s) ==
    /\ \A sub \in busSubs : sub.striker # s
    /\ busSubs' = busSubs \cup striker_subscriptions(s)
    /\ UNCHANGED <<now, redisUp, coreConnected, busActions, handleActionCalls, opActionRows>>
    /\ DispatchFrame

\* POST /alerts/{alert_id}/dispatch with one action; chosen is the member the
\* server picks in a queue group
DispatchStrikerActions(alert_id, action_type, chosen) ==
    /\ Len(busActions) < MaxBusActions
    /\ alert_exists(alert_id)
    /\ queue_member(chosen)
    /\ LET action_id == Len(opActionRows) + 1
           subject == dispatch_subject(action_type)
       IN /\ opActionRows' = Append(opActionRows, [action_id |-> action_id,
                                       action_type |-> action_type, status |-> "queued"])
          /\ IF coreConnected
             THEN /\ busActions' = Append(busActions,
                                      [route |-> "dispatch", subject |-> subject,
                                       action_id |-> action_id, action_type |-> action_type,
                                       strikers_up |-> {sub.striker : sub \in busSubs}])
                  /\ handleActionCalls' = handleActionCalls
                                             \cup deliveries(subject, action_id, chosen)
             ELSE UNCHANGED <<busActions, handleActionCalls>>
    /\ UNCHANGED <<now, redisUp, coreConnected, busSubs>>
    /\ DispatchFrame

\* DecisionEngineService.handle_alert: the publish on n7.actions.broadcast
BroadcastAction(action_type, chosen) ==
    /\ Len(busActions) < MaxBusActions
    /\ queue_member(chosen)
    /\ LET action_id == <<"auto", Len(busActions) + 1>>
           subject == <<"n7", "actions", "broadcast">>
       IN /\ busActions' = Append(busActions,
                                  [route |-> "broadcast", subject |-> subject,
                                   action_id |-> action_id, action_type |-> action_type,
                                   strikers_up |-> {sub.striker : sub \in busSubs}])
          /\ handleActionCalls' = handleActionCalls \cup deliveries(subject, action_id, chosen)
    /\ UNCHANGED <<now, redisUp, coreConnected, busSubs, opActionRows>>
    /\ DispatchFrame

InitDispatch ==
    /\ busSubs = {}
    /\ busActions = <<>>
    /\ handleActionCalls = {}
    /\ opActionRows = <<>>

NextDispatch ==
    \/ \E s \in StrikerIds : StrikerStart(s)
    \/ \E a \in DispatchAlertIds, t \in DispatchActionTypes, c \in StrikerIds :
          DispatchStrikerActions(a, t, c)
    \/ \E t \in DispatchActionTypes, c \in StrikerIds : BroadcastAction(t, c)

(***************************************************************************)
(* Initial state: every service freshly constructed, empty cache and DB    *)
(***************************************************************************)
vars == <<now, redisUp, coreConnected, ingestVars, corrVars, strikerVars, configVars,
          agentsVars, llmVars, auditVars, decisionVars, verdictVars, livenessVars,
          pushVars, execVars, emitterVars, shutdownVars, decodeVars, dispatchVars,
          strcfgVars, batchVars, regraceVars, cfgraceVars>>

Init ==
    /\ now = 0
    /\ redisUp = TRUE
    /\ coreConnected = TRUE
    /\ InitIngest
    /\ InitCorr
    /\ InitStriker
    /\ InitConfig
    /\ InitAgents
    /\ InitLlm
    /\ InitAudit
    /\ InitDecision
    /\ InitVerdict
    /\ InitLiveness
    /\ InitPush
    /\ InitExec
    /\ InitEmitter
    /\ InitShutdown
    /\ InitDecode
    /\ InitDispatch
    /\ InitStrcfg
    /\ InitBatch
    /\ InitRegrace
    /\ InitCfgrace

SpecIngest == Init /\ [][NextIngest]_vars
SpecCorr == Init /\ [][NextCorr]_vars
SpecStriker == Init /\ [][NextStriker]_vars
SpecConfig == Init /\ [][NextConfig]_vars
SpecAgents == Init /\ [][NextAgents]_vars
SpecLlm == Init /\ [][NextLlm]_vars
SpecAudit == Init /\ [][NextAudit]_vars
SpecDecision == Init /\ [][NextDecision]_vars
SpecVerdict == Init /\ [][NextVerdict]_vars
SpecLiveness == Init /\ [][NextLiveness]_vars
SpecPush == Init /\ [][NextPush]_vars
SpecExec == Init /\ [][NextExec]_vars
SpecEmitter == Init /\ [][NextEmitter]_vars
SpecShutdown == Init /\ [][NextShutdown]_vars
SpecDecode == Init /\ [][NextDecode]_vars
SpecDispatch == Init /\ [][NextDispatch]_vars
SpecStrcfg == Init /\ [][NextStrcfg]_vars
SpecBatch == Init /\ [][NextBatch]_vars
SpecRegrace == Init /\ [][NextRegrace]_vars
SpecCfgrace == Init /\ [][NextCfgrace]_vars
SpecRollback == Init /\ [][NextRollback]_vars
SpecFlush == Init /\ [][NextFlush]_vars
SpecIoc == Init /\ [][NextIoc]_vars
SpecCacheDown == Init /\ [][NextCacheDown]_vars
SpecStrikerLive == Init /\ [][NextStriker]_vars /\ WF_vars(StrikerReconnect)

(***************************************************************************)
(* Claims                                                                  *)
(***************************************************************************)
SameEvent(a, b) ==
    /\ a.sentinel_id = b.sentinel_id
    /\ a.event_class = b.event_class
    /\ SortKeys(a.raw_data) = SortKeys(b.raw_data)

AtMostOneWithin(s) ==
    \A i, j \in DOMAIN s :
        ( /\ i < j
          /\ SameEvent(s[i].msg, s[j].msg)
          /\ s[i].cacheOk /\ s[j].cacheOk )
        => s[j].at - s[i].at >= dedup_window

\* C1: two messages with equal sentinel_id, event_class and key-sorted
\* raw_data, both handled while the cache is reachable and less than
\* dedup_window seconds apart, are never both appended to the buffer, never
\* both stored in the events table and never both forwarded on internal.events.
C1_Dedup ==
    /\ AtMostOneWithin(appended)
    /\ AtMostOneWithin(eventsTable)
    /\ AtMostOneWithin(internalEvents)

\* a message was dropped inside the window of an equal one that differs from
\* it in the key order of raw_data, and the first one reached the events table
C1_Witness ==
    \E i \in DOMAIN eventsTable, j \in DOMAIN droppedDups :
        /\ eventsTable[i].cacheOk
        /\ SameEvent(eventsTable[i].msg, droppedDups[j].msg)
        /\ eventsTable[i].msg.raw_data # droppedDups[j].msg.raw_data
        /\ droppedDups[j].at - eventsTable[i].at < dedup_window
        /\ droppedDups[j].at > eventsTable[i].at

\* C2: for every rule R and source S, any two bundles published on llm.analyze
\* for (R, S) are at least ALERT_COOLDOWN seconds apart; every invocation of
\* _create_alert persists its own alert row, and a row minted less than
\* ALERT_COOLDOWN seconds after a publish for the same (R, S) has no bundle.
SameKey(a, b) == a.rule_id = b.rule_id /\ a.source = b.source

DuringCooldown(row) ==
    \E p \in Range(llmAnalyze) :
        /\ SameKey(p, row)
        /\ p.alert_id # row.alert_id
        /\ p.at <= row.at
        /\ row.at - p.at < 300

C2_Cooldown ==
    /\ \A i, j \in DOMAIN llmAnalyze :
          (i < j /\ SameKey(llmAnalyze[i], llmAnalyze[j]))
             => llmAnalyze[j].at - llmAnalyze[i].at >= 300
    /\ Len(alertsTable) = Len(matchLog.calls)
    /\ \A i \in DOMAIN alertsTable :
          /\ SameKey(alertsTable[i], matchLog.calls[i])
          /\ alertsTable[i].at = matchLog.calls[i].at
          /\ DuringCooldown(alertsTable[i])
                => \A p \in Range(llmAnalyze) : p.alert_id # alertsTable[i].alert_id

\* a rule fired twice for one source inside the cooldown: two rows, one bundle
C2_Witness ==
    \E i, j \in DOMAIN alertsTable :
        /\ i < j
        /\ SameKey(alertsTable[i], alertsTable[j])
        /\ \E p \in Range(llmAnalyze) : p.alert_id = alertsTable[i].alert_id
        /\ DuringCooldown(alertsTable[j])
        /\ Cardinality({n \in DOMAIN llmAnalyze : SameKey(llmAnalyze[n], alertsTable[i])}) = 1

\* C10: for a simple rule with threshold N and time_window T, a matching event
\* mints an alert row exactly when it is the N-th match for its (rule, source)
\* counted from a first match less than T seconds earlier, and the counter is
\* gone after that event.  For brute_force: five failed logins of one source
\* inside 60 s mint one row (high, 75, [source]) at the fifth, published on
\* llm.analyze unless a bundle for the key went out in the 300 s before, and
\* no later failed login inside 300 s of a bundle is published again.
SimpleKeys == {k \in CorrKeys : CORRELATION_RULES(k[1]).multi_stage = NoStage}

\* the matches at which a counter that starts at the first match, lives T
\* seconds and is dropped on reaching N reaches N
RECURSIVE reach_indices(_, _, _, _, _, _)
reach_indices(log, i, start, c, N, T) ==
    IF i > Len(log) THEN {}
    ELSE LET fresh == c = 0 \/ log[i].at - start >= T
             c1 == IF fresh THEN 1 ELSE c + 1
             s1 == IF fresh THEN log[i].at ELSE start
         IN IF c1 >= N
            THEN {i} \cup reach_indices(log, i + 1, 0, 0, N, T)
            ELSE reach_indices(log, i + 1, s1, c1, N, T)

RowsOf(k, ev) ==
    {n \in DOMAIN alertsTable :
        /\ alertsTable[n].rule_id = k[1]
        /\ alertsTable[n].source = k[2]
        /\ alertsTable[n].event_ids = <<ev>>}

BundlesOf(k) == {n \in DOMAIN llmAnalyze : llmAnalyze[n].rule_id = k[1] /\ llmAnalyze[n].source = k[2]}

C10_SimpleRule ==
    \A k \in SimpleKeys :
        LET log == matchLog.hits[k]
            N == CASE k[1] = "brute_force" -> 5 [] OTHER -> 1
            T == CASE k[1] = "brute_force" -> 60 [] k[1] = "high_cpu_usage" -> 120 [] OTHER -> 3600
            reached == reach_indices(log, 1, 0, 0, N, T)
        IN /\ \A i \in DOMAIN log :
                 Cardinality(RowsOf(k, log[i].ev)) = IF i \in reached THEN 1 ELSE 0
           /\ (log # <<>> /\ Len(log) \in reached) => ~Live(corrExp[k])
           /\ \A i \in reached : \A n \in RowsOf(k, log[i].ev) :
                 /\ k[1] = "brute_force" =>
                       /\ alertsTable[n].severity = "high"
                       /\ alertsTable[n].threat_score = 75
                       /\ alertsTable[n].affected_assets = <<k[2]>>
                 /\ (\E p \in Range(llmAnalyze) : p.alert_id = alertsTable[n].alert_id)
                       <=> ~DuringCooldown(alertsTable[n])
           /\ \A a, b \in BundlesOf(k) :
                 a < b => llmAnalyze[b].at - llmAnalyze[a].at >= 300

\* five failed logins of ip1 inside 60 s minted one row and one bundle, and a
\* sixth arrived less than 300 s after the bundle without a second bundle
C10_Witness ==
    LET k == <<"brute_force", "ip1">>
        log == matchLog.hits[k]
    IN /\ Len(log) >= 6
       /\ log[5].at - log[1].at < 60
       /\ log[6].at - log[5].at < 300
       /\ Cardinality(RowsOf(k, log[5].ev)) = 1
       /\ Cardinality({n \in DOMAIN alertsTable : alertsTable[n].rule_id = "brute_force"}) = 1
       /\ Cardinality(BundlesOf(k)) = 1
       /\ corrCount[k] = 1

\* C3 (as stated): whenever handle_action receives an action whose type is not
\* in a non-null allowed_actions, that invocation calls no execute, collects no
\* evidence, registers no rollback entry, and publishes a status "rejected"
\* for the action_id on actions.status.
NotAllowed(r) == ~r.allowed.is_none /\ r.action_type \notin r.allowed.items

NothingDone(i) ==
    /\ \A e \in Range(executed) : e.call # i
    /\ \A s \in Range(evidence) : s.call # i
    /\ \A a \in ActionIds : ledger[a].call # i

RejectedPublished(i) ==
    \E s \in Range(actionsStatus) :
        s.call = i /\ s.status = "rejected" /\ s.action_id = received[i].action_id

KnownTypes == {"kill_process", "network_block", "network_unblock", "isolate_host",
               "unisolate_host"}

LastWake == schedNext - 30

UnblocksOf(a) ==
    {n \in DOMAIN ownSubject :
        /\ ownSubject[n].original_action_id = a
        /\ ownSubject[n].action_type = "network_unblock"
        /\ ownSubject[n].for_call = ledger[a].call}

C4_RollbackOnce ==
    \A a \in ActionIds :
        (ledger[a].present /\ ledger[a].action_type = "network_block") =>
            LET due == ledger[a].registered_at + 3600
            IN IF LastWake >= due
               THEN /\ ledger[a].rolled_back
                    /\ Cardinality(UnblocksOf(a)) = 1
                    /\ \A n \in UnblocksOf(a) :
                          ownSubject[n].at >= due /\ ownSubject[n].at < due + 30
               ELSE UnblocksOf(a) = {} /\ ~ledger[a].rolled_back

\* C5: over any sequence of provision_agent_config and upsert_config calls,
\* the config_version of an agent's row never decreases from one call to the
\* next, every committed call leaves it strictly greater than the call found
\* it (0 when there was no row), and an existing row has config_version >= 1,
\* also when upsert_config created the row.
C5_VersionMonotone ==
    /\ \A a \in ConfigAgents : agentConfigs[a].exists => agentConfigs[a].config_version >= 1
    /\ \A i \in DOMAIN cfgLog :
          /\ cfgLog[i].ok =>
                /\ cfgLog[i].after.exists
                /\ cfgLog[i].after.config_version >= 1
                /\ cfgLog[i].after.config_version > cfgLog[i].before.config_version
          /\ ~cfgLog[i].ok => cfgLog[i].after = cfgLog[i].before
    /\ \A i, j \in DOMAIN cfgLog :
          (i < j /\ cfgLog[i].agent_id = cfgLog[j].agent_id) =>
              /\ cfgLog[j].before.config_version >= cfgLog[i].after.config_version
              /\ cfgLog[j].after.config_version >= cfgLog[i].after.config_version

\* upsert_config created the row of an agent (version 1), and a later
\* provision_agent_config of the same agent raised it to 2
C5_Witness ==
    \E i, j \in DOMAIN cfgLog :
        /\ i < j
        /\ cfgLog[i].agent_id = cfgLog[j].agent_id
        /\ cfgLog[i].op = "upsert" /\ cfgLog[i].ok /\ ~cfgLog[i].before.exists
        /\ cfgLog[i].after.config_version = 1
        /\ cfgLog[j].op = "provision" /\ cfgLog[j].ok
        /\ cfgLog[j].after.config_version = 2

\* C6: a POST /agents/heartbeat whose payload agent_id differs from the id of
\* the agent its API key authenticates is answered 403 and changes no agent
\* row; a heartbeat that is accepted changes only the row of the authenticated
\* agent, which takes the payload's status and resource_usage and the time of
\* the request as last_heartbeat.
KeyOwner(tbl, key) ==
    {i \in DOMAIN tbl : tbl[i].api_key_prefix = key[1] /\ tbl[i].api_key_hash[2] = key}

C6_Heartbeat ==
    \A n \in DOMAIN hbLog :
        LET h == hbLog[n]
            owner == KeyOwner(h.before, h.key)
        IN /\ (owner # {} /\ h.payload_id \notin owner) =>
                  h.code = 403 /\ h.after = h.before
           /\ h.code # 200 => h.after = h.before
           /\ h.code = 200 =>
                  /\ owner = {h.payload_id}
                  /\ DOMAIN h.after = DOMAIN h.before
                  /\ \A i \in DOMAIN h.before :
                        IF i \in owner
                        THEN h.after[i] = [h.before[i] EXCEPT !.last_heartbeat = h.at,
                                                              !.status = h.status,
                                                              !.resource_usage = h.usage]
                        ELSE h.after[i] = h.before[i]

\* with two agents registered, the first one's key sent a heartbeat naming the
\* second and got 403, and a heartbeat naming itself was accepted
C6_Witness ==
    \E m, n \in DOMAIN hbLog :
        /\ Len(hbLog[m].before) = 2
        /\ KeyOwner(hbLog[m].before, hbLog[m].key) = {1}
        /\ hbLog[m].payload_id = 2
        /\ hbLog[m].code = 403
        /\ hbLog[n].code = 200
        /\ hbLog[n].after # hbLog[n].before

\* C7: for any alert_id, two calls of _generate_narrative are at least 3600 s
\* apart, so deliveries of the bundle inside the hour that follows a call cause
\* no second call; and every delivery in that hour writes to the alert row the
\* four values that call produced.
C7_LlmIdempotent ==
    /\ \A i, j \in DOMAIN generateCalls :
          (i < j /\ generateCalls[i].alert_id = generateCalls[j].alert_id)
             => generateCalls[j].at - generateCalls[i].at >= 3600
    /\ \A w \in Range(llmWrites) :
          \E g \in Range(generateCalls) :
             /\ g.alert_id = w.alert_id
             /\ g.at <= w.at /\ w.at - g.at < 3600
             /\ w.fields = g.result
    /\ \A a \in LlmAlertIds :
          (alertLlmFields[a].exists /\ \E w \in Range(llmWrites) : w.alert_id = a)
             => \E w \in Range(llmWrites) : w.alert_id = a /\ w.fields = alertLlmFields[a].fields

\* one bundle delivered three times inside the hour, Ollama ready to answer
\* differently each time: one call, three identical writes
C7_Witness ==
    \E a \in LlmAlertIds :
        /\ Cardinality({i \in DOMAIN llmWrites : llmWrites[i].alert_id = a}) >= 3
        /\ Cardinality({i \in DOMAIN generateCalls : generateCalls[i].alert_id = a}) = 1
        /\ \A w \in Range(llmWrites) : w.alert_id = a => w.fields = alertLlmFields[a].fields
        /\ alertLlmFields[a].fields.narrative = <<"answer1", "narrative">>
        /\ \E i, j \in DOMAIN llmWrites :
              llmWrites[i].alert_id = a /\ llmWrites[j].alert_id = a /\ llmWrites[i].at < llmWrites[j].at

\* the rows of the audit log hold the chain when read in the order p
ChainHolds(rows, p) ==
    /\ \A i \in DOMAIN rows :
          rows[p[i]].previous_hash = IF i = 1 THEN PyNone ELSE Some(rows[p[i - 1]].current_hash)
    /\ \A i \in DOMAIN rows :
          rows[i].current_hash =
             <<uuid_str(rows[i].log_id), isoformat(rows[i].timestamp), rows[i].actor,
               rows[i].action, or_else(rows[i].resource, ""), SortKeys(rows[i].details),
               or_else(rows[i].previous_hash, <<>>)>>

StatusColumns(row) ==
    <<row.exists, row.status, row.evidence,
      IF row.rollback_entry = PyNone THEN PyNone
      ELSE Some({row.rollback_entry[1][k] : k \in {k \in DOMAIN row.rollback_entry[1] :
                                                  row.rollback_entry[1][k][1] = "execution_result"}})>>

\* C9: a status report delivered a second time for an action_id leaves the
\* action row (status, evidence, rollback_entry.execution_result) as the first
\* delivery left it, whether the row existed before or was created by the
\* first delivery.
C9_StatusIdempotent ==
    \A i, j \in DOMAIN statusLog :
        ( /\ j = i + 1
          /\ statusLog[i].action_id = statusLog[j].action_id
          /\ statusLog[i].report = statusLog[j].report
          /\ statusLog[j].before = statusLog[i].after )
        => StatusColumns(statusLog[j].after) = StatusColumns(statusLog[i].after)

\* the messages published on n7.actions.broadcast while alert number i was handled
BroadcastFor(i) == {j \in DOMAIN actionsBroadcast : actionsBroadcast[j].for_call = i}

\* C11: when the alert minted by the brute force rule (severity high,
\* threat_score > 70) is handled, exactly one action is published on
\* actions.broadcast: a network_block whose target is the alert's source and
\* whose duration is 3600.
C11_BruteForceBlock ==
    \A i \in DOMAIN verdictLog :
        LET alert == verdictLog[i].alert
        IN ( /\ \E s \in CorrSources : alert = minted_alert("brute_force", s)
             /\ alert.severity = "high"
             /\ alert.threat_score > 70 )
           => /\ Cardinality(BroadcastFor(i)) = 1
              /\ \A j \in BroadcastFor(i) :
                    /\ actionsBroadcast[j].type = "network_block"
                    /\ "target" \in DOMAIN actionsBroadcast[j].params
                    /\ actionsBroadcast[j].params.target = alert.reasoning.source
                    /\ actionsBroadcast[j].params.duration = 3600

\* the policy table of the decision engine
IsBruteForceWithSource(alert) ==
    /\ "rule" \in DOMAIN alert.reasoning
    /\ alert.reasoning.rule \in {"Brute Force", "Brute Force Attack Detection"}
    /\ \E k \in {"source_ip", "source"} :
          k \in DOMAIN alert.reasoning /\ alert.reasoning[k] # ""

PolicyTable(alert) ==
    LET sev == IF alert.severity = "High" THEN "high" ELSE alert.severity
        multi == /\ "is_multi_stage" \in DOMAIN alert.reasoning
                 /\ alert.reasoning.is_multi_stage
                 /\ "source" \in DOMAIN alert.reasoning
                 /\ alert.reasoning.source # ""
    IN IF sev = "critical" /\ multi THEN "auto_respond"
       ELSE IF sev = "high" /\ alert.threat_score > 70 /\ IsBruteForceWithSource(alert)
            THEN "auto_respond"
       ELSE IF sev \in {"critical", "medium"} THEN "escalate"
       ELSE "dismiss"

\* C12: the verdict of every alert handled is the one of the policy table, and
\* an action is published exactly when the verdict is auto_respond.
C12_PolicyTable ==
    \A i \in DOMAIN verdictLog :
        /\ verdictLog[i].verdict = PolicyTable(verdictLog[i].alert)
        /\ (BroadcastFor(i) # {}) <=> (verdictLog[i].verdict = "auto_respond")

\* C13: a failed insert of a flush batch loses no event: every event accepted
\* by handle_event is still in the buffer, waiting for the next flush tick, or
\* is a row of the events table, and the flush loop is still running.
C13_FlushRetry ==
    /\ \A e \in Range(appended) : e \in Range(buffer) \/ e \in Range(eventsTable)
    /\ flushLoopRunning

Promoted(e) ==
    IF e.matches
    THEN /\ e.severity = "critical"
         /\ \E i \in DOMAIN e.raw_data : e.raw_data[i] = <<"ioc_matched", TRUE>>
    ELSE /\ e.severity = e.msg.severity
         /\ e.raw_data = e.msg.raw_data

\* the delivery of forwarded event i calls _create_alert for the ioc_match rule
IocRuleFires(i) ==
    (i \in DOMAIN internalEvents /\ internalEvents[i].matches /\ DeliverInternalEvent(i))
    => \E n \in DOMAIN matchLog.calls' :
          /\ n > Len(matchLog.calls)
          /\ matchLog.calls'[n].rule_id = "ioc_match"

\* C15: an event with a threat-intel match is buffered and forwarded with
\* severity critical and raw_data.ioc_matched = true, whatever severity it came
\* with, and the ioc_match rule fires when the forwarded event is correlated;
\* without a match the severity is the one received.
C15_IocPromotion ==
    /\ [](\A e \in Range(appended) \cup Range(internalEvents) : Promoted(e))
    /\ [][\A i \in 1..MaxIngest : IocRuleFires(i)]_vars

C17_SharedPrefix ==
    /\ \A n \in DOMAIN regLog :
          KeyOwner(regLog[n].before, regLog[n].key) = {}
          => /\ regLog[n].code = 200
             /\ KeyOwner(regLog[n].after, regLog[n].key) = {regLog[n].id}
             /\ Len(regLog[n].after) = Len(regLog[n].before) + 1
    /\ \A n \in DOMAIN hbLog :
          LET owner == KeyOwner(hbLog[n].before, hbLog[n].key)
          IN /\ owner = {} => hbLog[n].code = 401
             /\ (owner # {} /\ hbLog[n].payload_id \in owner) => hbLog[n].code = 200

\* C18: an agent stored as active whose last heartbeat is older than 90 s is
\* stored as unhealthy at the latest one sweep period (30 s) later, so no row
\* is active with a last heartbeat older than 120 s.
C18_LivenessSweep ==
    \A i \in DOMAIN agentsTable :
        agentsTable[i].status = "active" => now - agentsTable[i].last_heartbeat <= 90 + 30

\* the requests that updated a config: answered 200 with fields to write
ConfigUpdates == { i \in DOMAIN pushLog : pushLog[i].code = 200 /\ DOMAIN pushLog[i].fields # {} }

\* the one message a config update must be followed by
CarriesUpdate(msg, r) ==
    /\ msg.subject = <<"n7", "config", r.agent_id>>
    /\ msg.payload.config_version = r.after.config_version
    /\ \A f \in DOMAIN r.fields : msg.payload[f] = r.fields[f]

C20_ConcurrencyCap ==
    \A s \in Subscriptions :
        IF subRunning[s] = PyNone THEN TRUE
        ELSE IF subRunning[s][1].cap = PyNone THEN TRUE
        ELSE subRunning[s][1].others + 1 <= subRunning[s][1].cap[1]

\* the i-th call of handle_action found a handler: it executed it or rejected
\* the action by the allowlist
StatusOwed(i) == i \in DOMAIN received /\ received[i].action_type \in KnownTypes

StatusReported(i) == \E s \in Range(actionsStatus) : s.call = i

\* C21: every action whose handler was invoked, or which the allowlist
\* rejected, eventually has a status message on n7.actions.status, also when
\* the bus was down as the handler finished and comes back later.
C21_StatusAtLeastOnce ==
    \A i \in 1..MaxStrikerActions : StatusOwed(i) ~> StatusReported(i)

\* C22: the events of one Sentinel reach the bus in the order of their emit()
\* calls (event k is the one of the k-th call), also when some were buffered
\* during a disconnect and emit() is called again before the buffer is drained.
C22_EmitOrder ==
    \A i, j \in DOMAIN emPublished : i < j => emPublished[i] < emPublished[j]

\* C23: with the cache unreachable the pipeline keeps working; for the LLM
\* enricher, with the bus connected, every bundle it handles is answered by
\* one enriched alert on n7.alerts.
C23_CacheDownAvailable == Len(enrichedAlerts) = llmDeliveries

\* C24: once stop() has returned, the ingest buffer is empty and every event
\* ever appended to it has been handed to a DB insert: nothing is accepted
\* into the buffer after stop began and left there.
C24_StopDrains ==
    ~pipelineRunning =>
        /\ buffer = <<>>
        /\ \A e \in Range(appended) : e \in Range(eventsTable)

\* C25: handle_event returns normally for every payload; a payload that cannot
\* be decoded adds nothing to the buffer and publishes nothing.
C25_UndecodableSwallowed ==
    \A i \in DOMAIN handlerLog :
        /\ handlerLog[i].outcome = "returned"
        /\ handlerLog[i].buffer_after = handlerLog[i].buffer_before
        /\ handlerLog[i].forwarded_after = handlerLog[i].forwarded_before

\* a payload that is valid JSON but no object was swallowed, and a later
\* message was still handled and buffered
C25_Witness ==
    \E i \in DOMAIN handlerLog :
        /\ handlerLog[i].payload = "json_list"
        /\ Len(appended) > handlerLog[i].appended_before

\* C26: every action the operator endpoint published on n7.actions.<type>
\* while a Striker was subscribed (every Striker supports the types offered)
\* was delivered to handle_action of at least one Striker.
C26_DispatchDelivered ==
    \A i \in DOMAIN busActions :
        (busActions[i].route = "dispatch" /\ busActions[i].strikers_up # {})
            => \E d \in handleActionCalls : d.action_id = busActions[i].action_id

\* the broadcast subject does what C26 asks of the per-type subjects
BroadcastDelivered ==
    \A i \in DOMAIN busActions :
        (busActions[i].route = "broadcast" /\ busActions[i].strikers_up # {})
            => \E d \in handleActionCalls : d.action_id = busActions[i].action_id

\* the duration a ledger entry's action was dispatched with
DurationOf(entry) ==
    LET ds == SelectSeq(entry.rollback_params, LAMBDA kv : kv[1] = "duration")
    IN ds[1][2]

\* C27: a network_block dispatched with duration d has its network_unblock,
\* carrying original_action_id, on the Striker's own subject once the
\* scheduler has woken at or after registered_at + d.
C27_DurationDeadline ==
    \A a \in ActionIds :
        (/\ ledger[a].present
         /\ ledger[a].action_type = "network_block"
         /\ LastWake >= ledger[a].registered_at + DurationOf(ledger[a]))
            => UnblocksOf(a) # {}

\* the stages of the multi-stage rules, read off correlation_rules.py
MultiStageRules == {r \in RuleIds : CORRELATION_RULES(r).multi_stage # <<>>}

\* the buffered events that satisfy a stage at time t, oldest first
StageHits(stage, buffered, t) ==
    SelectSeq(buffered,
              LAMBDA e : /\ matches_pattern(stage, e.event_class, e.raw_data)
                         /\ (stage.within_seconds # 0 => e.timestamp > t - stage.within_seconds))

StagesSatisfied(r, buffered, t) ==
    \A k \in DOMAIN CORRELATION_RULES(r).multi_stage :
        Len(StageHits(CORRELATION_RULES(r).multi_stage[k], buffered, t))
            >= CORRELATION_RULES(r).multi_stage[k].min_occurrences

\* the alert rows the i-th call of handle_internal_event wrote for rule r
MintedBy(i, r) ==
    LET last == IF i < Len(matchLog.handled) THEN matchLog.handled[i + 1].alerts_before
                ELSE Len(alertsTable)
    IN { n \in (matchLog.handled[i].alerts_before + 1)..last : alertsTable[n].rule_id = r }

\* the first min_occurrences matching event ids of every stage appear in ids
CarriesStageIds(ids, r, buffered, t) ==
    \A k \in DOMAIN CORRELATION_RULES(r).multi_stage :
        LET stage == CORRELATION_RULES(r).multi_stage[k]
        IN \A j \in 1..stage.min_occurrences :
              \E x \in DOMAIN ids : ids[x] = StageHits(stage, buffered, t)[j].event_id

PassedAllowlist(i) ==
    /\ received[i].action_type \in KnownTypes
    /\ ~NotAllowed(received[i])

StatusesOf(i) == {n \in DOMAIN actionsStatus : actionsStatus[n].call = i}

RegisteredIn(i) == \E a \in ActionIds : ledger[a].present /\ ledger[a].call = i

Reversible(i) == received[i].action_type \in {"isolate_host", "network_block"}

FullRun(i) ==
    <<"pre", "execute", "post">> \o (IF Reversible(i) THEN <<"rollback">> ELSE <<>>)

UnknownDropped(i) ==
    /\ received[i].steps = <<>>
    /\ StatusesOf(i) = {}
    /\ ~RegisteredIn(i)
    /\ \A e \in Range(evidence) : e.call # i
    /\ \A x \in Range(executed) : x.call # i

C30_VerdictPersisted ==
    \A i \in DOMAIN verdictLog :
        verdictLog[i].alert.alert_id \in DOMAIN alertVerdicts =>
            /\ alertVerdicts[verdictLog[i].alert.alert_id] = verdictLog[i].verdict
            /\ alertVerdicts[verdictLog[i].alert.alert_id] # "pending"

\* the calls of _generate_narrative whose inference call failed
FailedCalls == {i \in DOMAIN generateCalls :
                   generateCalls[i].outcome \in {"timeout", "connect_error", "malformed_json"}}

FourFields(f) ==
    DOMAIN f = {"narrative", "mitre_tactic", "mitre_technique", "remediation"}

C32_BoundedFifo ==
    /\ Len(emBuffer) <= 1000
    /\ \A i \in DOMAIN emLog.drop_lens : emLog.drop_lens[i] = 1000
    /\ emLog.flushed \o emBuffer = emLog.accepted
    /\ \A i \in 1..(Len(emLog.accepted) - 1) : emLog.accepted[i] < emLog.accepted[i + 1]
    /\ \A i \in DOMAIN emLog.flushed : \E n \in DOMAIN emPublished :
          emPublished[n] = emLog.flushed[i]
    /\ emitCalls = (Len(emPublished) - Len(emLog.flushed)) + Len(emLog.accepted)
                      + Len(emLog.drop_lens)

\* the buffer filled up, an event was dropped, and after the reconnect the
\* flush loop, one failed publish notwithstanding, published the oldest two
C32_Witness ==
    /\ emDropped # <<>>
    /\ Len(emLog.accepted) = 1000
    /\ emLog.failed = 1
    /\ Len(emLog.flushed) = 2
    /\ Len(emBuffer) = 998


\* C33: however many times the same enriched alert message is delivered on
\* n7.alerts, at most one action for its alert_id is published on
\* n7.actions.broadcast.
C33_AlertIdempotent ==
    \A i, j \in DOMAIN verdictLog :
        (i < j /\ verdictLog[i].alert = verdictLog[j].alert)
           => Cardinality({n \in DOMAIN actionsBroadcast :
                              actionsBroadcast[n].alert_id = verdictLog[i].alert.alert_id}) <= 1

\* C34: a config push whose config_version is not above the locally applied
\* one changes nothing; the locally applied config_version never decreases;
\* and once every push has been delivered, in whatever order, the live
\* allowed_actions is the one of the highest config_version.
C34_ConfigVersionGuard ==
    /\ \A i \in DOMAIN strCfgLog :
          /\ strCfgLog[i].version_after >= strCfgLog[i].version_before
          /\ (strCfgLog[i].kind = "push" /\ strCfgLog[i].incoming <= strCfgLog[i].version_before)
                => /\ strCfgLog[i].allowed_after = strCfgLog[i].allowed_before
                   /\ strCfgLog[i].version_after = strCfgLog[i].version_before
    /\ (configPushes = {} /\ pollStage = "sleeping" /\ coreConfigs # <<>>)
          => /\ configVersion = Len(coreConfigs)
             /\ allowedActions = coreConfigs[Len(coreConfigs)]

\* the same, for pushes alone: the poll loop has never found a newer version
PushGuardHolds ==
    Polls = 0 /\ pollStage = "sleeping" => C34_ConfigVersionGuard

\* the events of all batches taken so far, in the order they were taken
RECURSIVE BatchedEvents(_)
BatchedEvents(bs) == IF bs = <<>> THEN <<>> ELSE Head(bs).events \o BatchedEvents(Tail(bs))

\* C35: whatever the interleaving of appends, flush loop and size-triggered
\* flush tasks, every event appended is either still in the buffer or in
\* exactly one batch, and no row is inserted twice.
C35_OneBatch ==
    /\ BatchedEvents(batches) \o batchBuffer = [k \in 1..batchAppends |-> k]
    /\ Cardinality(Range(batchTable)) = Len(batchTable)
    /\ \A i \in DOMAIN batches : batches[i].events # <<>>

\* a size-triggered task took a batch of FLUSH_BATCH_SIZE events or more while
\* a batch of the flush loop was waiting for its commit, more events arrived,
\* and both batches were inserted
C35_Witness ==
    \E i, j \in DOMAIN batches :
        /\ i < j
        /\ batches[i].by = "loop" /\ batches[j].by = "task"
        /\ Len(batches[j].events) >= 500
        /\ batches[i].committed /\ batches[j].committed
        /\ Len(batchTable) > Len(batches[j].events)
        /\ batchBuffer # <<>>

\* C36: whatever the interleaving of the register calls that carry one API
\* key, at most one row has the key's prefix, and the calls that have
\* answered all succeeded and returned the same agent id.
C36_RegisterRace ==
    \A k \in RegKeys :
        /\ Cardinality(rows_with_prefix(k[1])) <= 1
        /\ \A r1, r2 \in DOMAIN regRequests :
              (regRequests[r1].key = k /\ regRequests[r2].key = k
                 /\ regRequests[r1].stage = "done" /\ regRequests[r2].stage = "done")
                 => /\ regRequests[r1].code = 200
                    /\ regRequests[r1].id = regRequests[r2].id

\* registrations that do not overlap: a request starts only after the ones
\* before it have answered
RegisterSequential ==
    (\A r \in DOMAIN regRequests : ~regRequests[r].overlaps) => C36_RegisterRace


\* the calls of upsert_config for one agent
UpsertsOf(a) == {c \in DOMAIN upsertCalls : upsertCalls[c].agent_id = a}

\* C37: once the k concurrent calls of upsert_config for one agent have all
\* returned successfully, the agent's config_version is k higher than at the
\* start (0) and the k calls returned k distinct versions.
C37_UpsertVersions ==
    \A a \in ConfigAgents :
        (\A c \in UpsertsOf(a) : upsertCalls[c].stage = "done" /\ upsertCalls[c].ok)
           => /\ agentConfigs[a].config_version = Cardinality(UpsertsOf(a))
              /\ \A c, d \in UpsertsOf(a) :
                    c # d => upsertCalls[c].returned.config_version
                               # upsertCalls[d].returned.config_version

\* calls of upsert_config that do not overlap count every call
UpsertSequential ==
    (\A c \in DOMAIN upsertCalls : ~upsertCalls[c].overlaps) => C37_UpsertVersions

\* the action types the scheduler publishes
RollbackActionTypes == {ROLLBACK_MAP(t).rollback_action_type : t \in RollbackTypes}

\* the rollback actions on the Striker's own subject for the entry of a
PublishedRollbacks(a) ==
    {n \in DOMAIN ownSubject : ownSubject[n].original_action_id = a
                                 /\ ownSubject[n].action_type = ledger[a].rollback_action_type}

\* C38: a rollback the scheduler executes with the bus connected is published
\* on the Striker's own subject and delivered to handle_action like any other
\* action: it runs only when allowed_actions is null or holds its type, it
\* registers no further rollback entry, and the ledger entry it rolls back
\* stays marked rolled_back whether handle_action ran or rejected it.
C38_RollbackPath ==
    /\ \A n \in DOMAIN rollbackCalls :
          LET a == rollbackCalls[n].action_id
          IN ledger[a].registered_at + AUTO_UNBLOCK_SECONDS <= rollbackCalls[n].at
                => /\ PublishedRollbacks(a) # {}
                   /\ ledger[a].rolled_back
    /\ \A k \in DOMAIN received :
          received[k].action_type \in RollbackActionTypes
             => /\ (received[k].outcome # "")
                      = (received[k].allowed.is_none
                           \/ received[k].action_type \in received[k].allowed.items)
                /\ \A s \in DOMAIN received[k].steps : received[k].steps[s] # "rollback"

\* C39: an event whose handling raises in the correlation engine spoils only
\* itself: every event that is well formed (its timestamp compares with the
\* cut-off) is buffered and evaluated against all rules whatever was handled
\* for its source before, and after the insert the source's buffer holds no
\* event older than one hour.
C39_FailureIsolated ==
    \A n \in DOMAIN matchLog.handled :
        LET h == matchLog.handled[n]
        IN ~h.tz_aware
             => /\ h.evaluated
                /\ h.buffered # <<>>
                /\ h.buffered[Len(h.buffered)].event_id = n
                /\ \A i \in DOMAIN h.buffered :
                      h.buffered[i].timestamp > h.at - BUFFER_KEEP_SECONDS

\* with no offset in any timestamp every event is buffered, trimmed and evaluated
NaiveOnly ==
    (\A n \in DOMAIN matchLog.handled : ~matchLog.handled[n].tz_aware) => C39_FailureIsolated

====
